---------------------------- MODULE Spec2Model ----------------------------
(***************************************************************************)
(* A model of the paper-search core of sciresearchai:                      *)
(*   - RateLimiter.acquire           (agents/paper_search/api_integrations) *)
(*   - APIIntegrationManager.search_with_retry                             *)
(*   - the source clients, APIIntegrationManager.search_all and            *)
(*     SearchWorkflowOrchestrator.execute_search_workflow                  *)
(*   - ResultAggregator.deduplicate_results and rank_results               *)
(*     (agents/paper_search/search_workflow)                               *)
(*   - HybridSearchRanker and EmbeddingGenerator                           *)
(*     (agents/paper_search/vector_search)                                 *)
(* Each component has its own specification; the variables of the other    *)
(* components are parked at a fixed value and left unchanged.              *)
(***************************************************************************)
EXTENDS Integers, Sequences, FiniteSets, TLC

(***************************************************************************)
(* Bounds of the model.                                                    *)
(***************************************************************************)
\* number of tasks that call acquire() on the same limiter
NumTasks == 2
\* max_calls of the limiter is drawn from 1..MaxCalls
MaxCalls == 2
\* time_window of the limiter is drawn from 1..MaxWindow (in ticks)
MaxWindow == 3
\* the argument max_retries of search_with_retry is drawn from 0..MaxRetries
MaxRetries == 3
\* the argument base_delay is drawn from 1..MaxBaseDelay (units of 0.25 s)
MaxBaseDelay == 2
\* the argument max_results of a run is drawn from 1..MaxResults
MaxResults == 2
\* the clock of a run stops at MaxClock; the caller's deadline is before it
MaxClock == 2
\* the lists handed to deduplicate_results have at most MaxRecords records
MaxRecords == 3
\* the scores handed to rank_documents are drawn from 0..MaxScore
MaxScore == 2
\* cache_size of an EmbeddingGenerator is drawn from 1..MaxCacheSize
MaxCacheSize == 2
\* the batches handed to generate_batch_embeddings have at most MaxBatch texts
MaxBatch == 2
\* the most calls of complete_step on a tracker called step by step
MaxCompleted == 3

(***************************************************************************)
(* Time.  One tick is 0.1 s, the slack that acquire() adds to its sleep    *)
(* (line 46).  Timestamps are kept as ages (now - call_time), and an age   *)
(* that has reached time_window stays there: line 42 drops every such      *)
(* entry before the list is read.                                          *)
(***************************************************************************)
SleepSlack == 1

Tasks == 1..NumTasks

VARIABLES
    \* ---- RateLimiter ----
    max_calls,      \* RateLimiter.max_calls
    time_window,    \* RateLimiter.time_window, in ticks
    calls,          \* RateLimiter.calls, as a sequence of ages
    pc,             \* task -> "idle" | "sleeping" (suspended at line 47)
    frames,         \* task -> ages of `now` of its suspended acquire() frames,
                    \*         outermost first
    timer,          \* task -> ticks left of its asyncio.sleep
    \* ---- observers of the limiter (no code reads them) ----
    returned,       \* ages of the returns of acquire() younger than time_window
    slept,          \* task -> its last finished acquire() slept at least once
    ahead,          \* task -> the callers that invoked acquire() at a strictly
                    \*         earlier instant than it did and have not returned
    arrived,        \* the callers that invoked acquire() at this instant
    passed,         \* task -> 0: not overtaken, 1: a later caller returned at
                    \*         this instant, 2: ... and time has moved on since
    \* ---- APIIntegrationManager.search_with_retry ----
    r_available,    \* is_available(api_name)
    max_retries,    \* the argument max_retries
    base_delay,     \* the argument base_delay, in units of 0.25 s
    attempt,        \* the loop variable of line 497
    r_pc,           \* "try" | "backoff" (suspended at line 509) | "done"
    r_result,       \* the list the call returned
    r_raised,       \* the call ended by raising
    \* ---- observer of search_with_retry ----
    r_events,       \* what the call did at the source, in order: the outcome
                    \* of each attempt and the delay of each sleep
    \* ---- APIIntegrationManager, clients and SearchWorkflowOrchestrator ----
    api_keys,       \* the sources api_keys configures (a key, or an email)
    biopython,      \* BIOPYTHON_AVAILABLE
    query,          \* the argument query of execute_search_workflow
    max_results,    \* the argument max_results
    clock,          \* time.time(), in ticks
    w_pc,           \* "idle" | "gathering" (suspended at line 460) | "done"
    s_pc,           \* source -> where its search task is: "off" | "ready" |
                    \*   "acquiring" | "requesting" | "retry_after" | "done"
    s_result,       \* source -> the list its search task returned
    progress_tracker, \* the orchestrator's WorkflowProgressTracker
    w_result,       \* the list execute_search_workflow returned
    w_raised,       \* execute_search_workflow ended by raising
    \* ---- observers of a run ----
    deadline,       \* the deadline the caller has in mind; nothing reads it
    s_log,          \* source -> the acquire() calls and returns and the
                    \*   requests of its search, in order
    s_failed,       \* source -> its search hit an error
    all_papers,     \* the list search_all returned
    \* ---- ResultAggregator.deduplicate_results ----
    d_results,      \* the argument results
    d_unique,       \* the list deduplicate_results(results) returned
    d_again,        \* the list deduplicate_results of that list returned
    d_pc,           \* "input" | "once" | "twice": how often it was applied
    \* ---- HybridSearchRanker and the ranking functions ----
    ranker,         \* the HybridSearchRanker last constructed: its
                    \*   semantic_weight and keyword_weight, in millionths
    last_call,      \* the last call made: its function, its arguments, what
                    \*   it returned or that it raised
    \* ---- EmbeddingGenerator ----
    cache_size,     \* EmbeddingGenerator.cache_size
    model_loaded,   \* EmbeddingGenerator.model is not None
    cache,          \* EmbeddingGenerator.cache, a dict: its items in
                    \*   insertion order, each [text, embedding]
    \* ---- observer of the generator ----
    e_call,         \* the last call of generate_embedding or
                    \*   generate_batch_embeddings: what it found, did and
                    \*   returned
    e_seen,         \* what generate_embedding of a generator without a
                    \*   model has returned so far: the pairs
                    \*   [text, returned]
    \* ---- invocations of the orchestrator's workflows ----
    vector_engine,  \* SearchAgent.vector_engine is set
    run,            \* caller -> its invocation: the workflow called (fn),
                    \*   where it is suspended (pc), its locals
                    \*   vector_results and api_results, the list it
                    \*   returned (result); and, observed: the calls it made
                    \*   on the tracker (log), the tracker as it would be
                    \*   had only this invocation used it (own), and the
                    \*   tracker as it was when the invocation returned
                    \*   (seen)
    \* ---- observer of the tracker ----
    metrics,        \* the last call of get_performance_metrics: what it
                    \*   returned and the tracker as it then was
    \* ---- the HTTP sessions of SemanticScholarAPI and ArxivAPI ----
    session,        \* client -> self.session: 0 for None, or the number
                    \*   of the aiohttp.ClientSession it refers to
    sessions_made,  \* client -> how many sessions it has constructed
    sessions_closed,  \* client -> the sessions of it that were closed
    searches,       \* task -> its call of search(): the client, where it
                    \*   is suspended (pc), the session it got
    \* ---- observer of _get_session ----
    handed          \* the last session _get_session returned, and
                    \*   whether it was closed when returned

rlVars == <<max_calls, time_window, calls, pc, frames, timer,
            returned, slept, ahead, arrived, passed>>

retryVars == <<r_available, max_retries, base_delay, attempt, r_pc,
               r_result, r_raised, r_events>>

wfVars == <<api_keys, biopython, query, max_results, clock, w_pc, s_pc,
            s_result, progress_tracker, w_result, w_raised, deadline, s_log,
            s_failed, all_papers>>

dedupVars == <<d_results, d_unique, d_again, d_pc>>

rankVars == <<ranker, last_call>>

embVars == <<cache_size, model_loaded, cache, e_call, e_seen>>

libVars == <<dedupVars, rankVars, embVars>>

runVars == <<vector_engine, run>>

sessVars == <<session, sessions_made, sessions_closed, searches, handed>>

restVars == <<runVars, metrics, sessVars>>

vars == <<rlVars, retryVars, wfVars, libVars, restVars>>

(***************************************************************************)
(* The state of each component before it is used.                          *)
(***************************************************************************)
\* The limiter right after RateLimiter.__init__ (lines 32-35), no caller yet.
NewLimiter ==
    /\ calls = <<>>
    /\ pc = [t \in Tasks |-> "idle"]
    /\ frames = [t \in Tasks |-> <<>>]
    /\ timer = [t \in Tasks |-> 0]
    /\ returned = <<>>
    /\ slept = [t \in Tasks |-> FALSE]
    /\ ahead = [t \in Tasks |-> {}]
    /\ arrived = {}
    /\ passed = [t \in Tasks |-> 0]

\* A limiter nobody calls.
NoLimiterUse ==
    /\ max_calls = 1
    /\ time_window = 1
    /\ NewLimiter

\* search_with_retry not called.
NoRetry ==
    /\ r_available = FALSE
    /\ max_retries = 0
    /\ base_delay = 1
    /\ attempt = 0
    /\ r_pc = "done"
    /\ r_result = <<>>
    /\ r_raised = FALSE
    /\ r_events = <<>>

Sources == {"semantic_scholar", "arxiv", "pubmed"}

\* WorkflowProgressTracker.__init__ and reset, search_workflow.py lines
\* 408-420.  reset does not touch total_steps, which only
\* initialize_workflow sets (line 425): has_total_steps tells whether the
\* attribute exists.
reset(tracker) ==
    [tracker EXCEPT !.steps = <<>>,
                    !.current_step = 0,
                    !.completed_steps = <<>>,
                    !.active_steps = {},
                    !.errors = <<>>,
                    !.step_start_times = <<>>,
                    !.step_results = <<>>,
                    !.total_results = 0]

NewTracker ==
    reset([steps |-> <<>>, current_step |-> 0, completed_steps |-> <<>>,
           active_steps |-> {}, errors |-> <<>>, step_start_times |-> <<>>,
           step_results |-> <<>>, total_results |-> 0,
           has_total_steps |-> FALSE, total_steps |-> 0])

\* An orchestrator on which no workflow has run,
\* SearchWorkflowOrchestrator.__init__ (lines 491-496).
NewOrchestrator ==
    /\ clock = 0
    /\ w_pc = "idle"
    /\ s_pc = [s \in Sources |-> "off"]
    /\ s_result = [s \in Sources |-> <<>>]
    /\ progress_tracker = NewTracker
    /\ w_result = <<>>
    /\ w_raised = FALSE
    /\ s_log = [s \in Sources |-> <<>>]
    /\ s_failed = [s \in Sources |-> FALSE]
    /\ all_papers = <<>>

\* No workflow is run.
NoRun ==
    /\ api_keys = {}
    /\ biopython = TRUE
    /\ query = ""
    /\ max_results = 1
    /\ deadline = 1
    /\ NewOrchestrator

\* deduplicate_results not called.
NoDedup ==
    /\ d_results = <<>>
    /\ d_unique = <<>>
    /\ d_again = <<>>
    /\ d_pc = "twice"

\* No HybridSearchRanker exists and nothing was ranked.
NoRanker == [exists |-> FALSE]
NoCall == [fn |-> "none"]

NoRanking ==
    /\ ranker = NoRanker
    /\ last_call = NoCall

\* EmbeddingGenerator.__init__, lines 40-43: an empty cache, no call yet.
NewGenerator ==
    /\ cache = <<>>
    /\ e_call = [fn |-> "none"]
    /\ e_seen = {}

\* A generator nobody calls.
NoEmbedding ==
    /\ cache_size = 1
    /\ model_loaded = TRUE
    /\ NewGenerator

\* Nothing of the aggregator and of vector_search is used.
NoLib ==
    /\ NoDedup
    /\ NoRanking
    /\ NoEmbedding

\* The callers of the orchestrator's workflows.
Runs == {1, 2}

\* A caller that has not called.
IdleRun ==
    [fn |-> "none", pc |-> "idle", vector_results |-> <<>>,
     api_results |-> <<>>, result |-> <<>>, log |-> <<>>,
     own |-> NewTracker, seen |-> NewTracker]

\* Nobody calls a workflow through run.
NoCaller ==
    /\ vector_engine = FALSE
    /\ run = [r \in Runs |-> IdleRun]

\* get_performance_metrics has not been called.
NoMetrics == [called |-> FALSE]

\* the clients that hold an HTTP session
Clients == {"semantic_scholar", "arxiv"}

\* SemanticScholarAPI.__init__ and ArxivAPI.__init__, api_integrations.py
\* lines 60 and 131: self.session = None; nobody searches.
NewClients ==
    /\ session = [c \in Clients |-> 0]
    /\ sessions_made = [c \in Clients |-> 0]
    /\ sessions_closed = [c \in Clients |-> {}]
    /\ searches = [t \in Tasks |->
                      [pc |-> "idle", client |-> "none", got |-> 0,
                       outcome |-> "none"]]
    /\ handed = [given |-> FALSE]

NoRest ==
    /\ NoCaller
    /\ metrics = NoMetrics
    /\ NewClients

(***************************************************************************)
(* Helpers on sequences.                                                   *)
(***************************************************************************)
Reverse(s) == [i \in 1..Len(s) |-> s[Len(s) + 1 - i]]

Younger(s, w) == SelectSeq(s, LAMBDA a : a < w)

Aged(s, w) == [i \in 1..Len(s) |-> IF s[i] < w THEN s[i] + 1 ELSE w]

(***************************************************************************)
(* RateLimiter.acquire, lines 37-50.                                       *)
(***************************************************************************)
\* line 42: the calls still inside the window
Pruned == Younger(calls, time_window)

\* line 45: the window is full
WindowFullOffByOne(live) == Len(live) > max_calls
WindowFull(live) == Len(live) >= max_calls

\* line 46: sleep_time = time_window - (now - calls[0]) + 0.1
SleepTime(live) == time_window - live[1] + SleepSlack

\* One run of the body of acquire() by task t, from line 39 to its first
\* suspension or to its return.  Without an await in between, asyncio runs
\* it as one step.  When the window is full the frame is suspended at line
\* 47 holding its `now`; otherwise line 50 appends `now`, and every
\* suspended caller frame of the recursion (line 48) then runs its own line
\* 50 with the `now` it took before it slept, innermost first.
AcquireBody(t) ==
    LET live == Pruned IN
    IF WindowFull(live)
    THEN /\ calls' = live
         /\ pc' = [pc EXCEPT ![t] = "sleeping"]
         /\ frames' = [frames EXCEPT ![t] = Append(@, 0)]
         /\ timer' = [timer EXCEPT ![t] = SleepTime(live)]
    ELSE /\ calls' = live \o <<0>> \o Reverse(frames[t])
         /\ pc' = [pc EXCEPT ![t] = "idle"]
         /\ frames' = [frames EXCEPT ![t] = <<>>]
         /\ timer' = [timer EXCEPT ![t] = 0]

\* What the observers record of a step of task t; isCall tells a fresh call
\* of acquire() from a wake-up.
Observe(t, isCall) ==
    LET ret == pc'[t] = "idle"
        before == IF isCall
                  THEN {u \in Tasks : pc[u] = "sleeping" /\ u \notin arrived}
                  ELSE ahead[t]
    IN  /\ arrived' = IF isCall THEN arrived \cup {t} ELSE arrived
        /\ returned' = IF ret THEN Append(returned, 0) ELSE returned
        /\ slept' = IF ret THEN [slept EXCEPT ![t] = ~isCall] ELSE slept
        /\ passed' = IF ret
                     THEN [u \in Tasks |->
                             IF u = t THEN 0
                             ELSE IF u \in before /\ passed[u] = 0 THEN 1
                             ELSE passed[u]]
                     ELSE passed
        /\ ahead' = IF ret
                    THEN [u \in Tasks |-> IF u = t THEN {} ELSE ahead[u] \ {t}]
                    ELSE [ahead EXCEPT ![t] = before]

\* A task calls acquire() (line 37).
Acquire(t) ==
    /\ pc[t] = "idle"
    /\ AcquireBody(t)
    /\ Observe(t, TRUE)
    /\ UNCHANGED <<max_calls, time_window>>
    /\ UNCHANGED <<retryVars, wfVars, libVars, restVars>>

\* asyncio.sleep(sleep_time) of task t is over (line 47) and the task runs
\* the recursive acquire() of line 48.
Wake(t) ==
    /\ pc[t] = "sleeping"
    /\ timer[t] = 0
    /\ AcquireBody(t)
    /\ Observe(t, FALSE)
    /\ UNCHANGED <<max_calls, time_window>>
    /\ UNCHANGED <<retryVars, wfVars, libVars, restVars>>

\* time.time() advances by one tick.  asyncio.sleep returns no sooner than
\* asked; with prompt, the event loop wakes every sleeper whose time has
\* come before the clock moves on.  A suspended frame whose `now` has left
\* the window is forgotten: the entry its line 50 would append is dropped by
\* line 42 before anything reads it.
Advance(prompt) ==
    /\ prompt => \A t \in Tasks : pc[t] = "sleeping" => timer[t] > 0
    /\ calls' = Aged(calls, time_window)
    /\ returned' = Younger(Aged(returned, time_window), time_window)
    /\ frames' = [t \in Tasks |->
                    Younger(Aged(frames[t], time_window), time_window)]
    /\ timer' = [t \in Tasks |-> IF timer[t] > 0 THEN timer[t] - 1 ELSE 0]
    /\ arrived' = {}
    /\ passed' = [t \in Tasks |-> IF passed[t] = 1 THEN 2 ELSE passed[t]]
    /\ UNCHANGED <<max_calls, time_window, pc, slept, ahead>>
    /\ UNCHANGED <<retryVars, wfVars, libVars, restVars>>

Tick == Advance(FALSE)

PromptTick == Advance(TRUE)

InitRateLimiter ==
    /\ max_calls \in 1..MaxCalls
    /\ time_window \in 1..MaxWindow
    /\ NewLimiter
    /\ NoRetry
    /\ NoRun
    /\ NoLib
    /\ NoRest

NextRateLimiter ==
    \/ \E t \in Tasks : Acquire(t)
    \/ \E t \in Tasks : Wake(t)
    \/ Tick

SpecRateLimiter == InitRateLimiter /\ [][NextRateLimiter]_vars

\* The same limiter with a prompt event loop, a clock that keeps advancing
\* and sleepers that are scheduled once their sleep is over.  Whether and
\* when callers arrive is left open.
NextRateLimiterFair ==
    \/ \E t \in Tasks : Acquire(t)
    \/ \E t \in Tasks : Wake(t)
    \/ PromptTick

SpecRateLimiterFair ==
    /\ InitRateLimiter
    /\ [][NextRateLimiterFair]_vars
    /\ WF_vars(PromptTick)
    /\ \A t \in Tasks : WF_vars(Wake(t))

(***************************************************************************)
(* C1.  No more than max_calls calls of acquire() return within any        *)
(* interval shorter than time_window, whatever the interleaving: at every  *)
(* instant the returns younger than time_window number at most max_calls.  *)
(***************************************************************************)
C1_RateCeiling == Len(returned) <= max_calls

\* the window is spent, a caller had to sleep for its slot and got it
C1_Witness ==
    /\ Len(returned) = max_calls
    /\ \E t \in Tasks : slept[t] /\ pc[t] = "idle"
    /\ \E t \in Tasks : pc[t] = "sleeping"

(***************************************************************************)
(* C2.  Strict FIFO admission: a caller that invoked acquire() at an       *)
(* earlier instant than another returns no later than the other does.      *)
(***************************************************************************)
C2_StrictFIFO == \A t \in Tasks : passed[t] # 2

(***************************************************************************)
(* C3.  No starvation: with a clock that advances and sleepers that are    *)
(* scheduled, every call of acquire() that sleeps eventually returns.      *)
(***************************************************************************)
C3_NoStarvation ==
    \A t \in Tasks : (pc[t] = "sleeping") ~> (pc[t] = "idle")

(***************************************************************************)
(* APIIntegrationManager.search_with_retry, lines 494-511, with            *)
(* _search_without_error_handling, lines 472-492.                          *)
(***************************************************************************)
RECURSIVE Pow2(_)
Pow2(n) == IF n = 0 THEN 1 ELSE 2 * Pow2(n - 1)

\* what a source client can hand back when it finds something
Hits == {<<"p1">>, <<"p1", "p2">>}

\* line 497: range(max_retries + 1)
RetryRangeOneMore == 0..(max_retries + 1)
RetryRange == 0..max_retries

\* line 503: attempt == max_retries
LastAttempt(k) == k = max_retries

\* line 507: delay = base_delay * (2 ** attempt)
Delay(k) == base_delay * Pow2(k)

\* What one call of _search_without_error_handling can do: raise ValueError
\* when the API is not available (line 475); otherwise whatever the client's
\* search does: raise, return [] or return papers.
Outcomes == IF r_available THEN {"raise", "empty", "hit"} ELSE {"raise"}

AttemptEvent(out, papers) ==
    [kind |-> "attempt", k |-> attempt, outcome |-> out, papers |-> papers]

SleepEvent(d) == [kind |-> "sleep", delay |-> d]

\* line 497, after attempt k: the next round of the loop, or line 511
LoopOn(k) ==
    IF k + 1 \in RetryRange
    THEN /\ attempt' = k + 1
         /\ r_pc' = "try"
         /\ UNCHANGED r_result
    ELSE /\ attempt' = k
         /\ r_pc' = "done"
         /\ r_result' = <<>>

\* One round of the loop, lines 498-509, up to its return, its sleep or the
\* next round.
Try ==
    /\ r_pc = "try"
    /\ attempt \in RetryRange
    /\ \E out \in Outcomes, papers \in Hits :
         LET got == IF out = "hit" THEN papers ELSE <<>> IN
         CASE out = "hit" ->
                /\ r_events' = Append(r_events, AttemptEvent(out, got))
                /\ r_result' = got
                /\ r_pc' = "done"
                /\ UNCHANGED attempt
           [] out = "empty" ->
                /\ r_events' = Append(r_events, AttemptEvent(out, got))
                /\ LoopOn(attempt)
           [] out = "raise" /\ LastAttempt(attempt) ->
                /\ r_events' = Append(r_events, AttemptEvent(out, got))
                /\ r_result' = <<>>
                /\ r_pc' = "done"
                /\ UNCHANGED attempt
           [] out = "raise" /\ ~LastAttempt(attempt) ->
                /\ r_events' = r_events \o <<AttemptEvent(out, got),
                                             SleepEvent(Delay(attempt))>>
                /\ r_pc' = "backoff"
                /\ UNCHANGED <<attempt, r_result>>
    /\ UNCHANGED <<r_available, max_retries, base_delay, r_raised>>
    /\ UNCHANGED <<rlVars, wfVars, libVars, restVars>>

\* asyncio.sleep(delay) of line 509 is over.
BackoffOver ==
    /\ r_pc = "backoff"
    /\ LoopOn(attempt)
    /\ UNCHANGED <<r_available, max_retries, base_delay, r_raised, r_events>>
    /\ UNCHANGED <<rlVars, wfVars, libVars, restVars>>

InitRetry ==
    /\ r_available \in BOOLEAN
    /\ max_retries \in 0..MaxRetries
    /\ base_delay \in 1..MaxBaseDelay
    /\ attempt = 0
    /\ r_pc = "try"
    /\ r_result = <<>>
    /\ r_raised = FALSE
    /\ r_events = <<>>
    /\ NoLimiterUse
    /\ NoRun
    /\ NoLib
    /\ NoRest

NextRetry ==
    \/ Try
    \/ BackoffOver

SpecRetry == InitRetry /\ [][NextRetry]_vars

Attempts == SelectSeq(r_events, LAMBDA e : e.kind = "attempt")

(***************************************************************************)
(* C9.  Exponential backoff: between any two consecutive attempts of one   *)
(* search_with_retry call there is a sleep of base_delay * 2^k, k the      *)
(* index of the earlier attempt.                                           *)
(***************************************************************************)
C9_BackoffBetweenAttempts ==
    \A i \in 1..(Len(r_events) - 1) :
        r_events[i].kind = "attempt" =>
            /\ r_events[i + 1].kind = "sleep"
            /\ r_events[i + 1].delay = base_delay * Pow2(r_events[i].k)

(***************************************************************************)
(* C10.  search_with_retry terminates: it makes at most max_retries + 1    *)
(* attempts, an attempt that returns papers is the last one and its papers *)
(* are the result, a call whose attempts all failed returns no records,    *)
(* nothing is raised, and a call that has not returned can take a step.    *)
(***************************************************************************)
C10_RetryTerminates ==
    /\ Len(Attempts) <= max_retries + 1
    /\ ~r_raised
    /\ \A i \in 1..Len(Attempts) :
          Attempts[i].outcome = "hit" =>
              /\ i = Len(Attempts)
              /\ r_pc = "done"
              /\ r_result = Attempts[i].papers
              /\ r_result # <<>>
    /\ (r_pc = "done" /\ \A i \in 1..Len(Attempts) : Attempts[i].outcome # "hit")
          => r_result = <<>>
    /\ r_pc # "done" => ENABLED NextRetry

\* every one of three or more attempts failed, each but the last raising,
\* and the call returned no records
C10_Witness ==
    /\ r_pc = "done"
    /\ max_retries >= 2
    /\ Len(Attempts) = max_retries + 1
    /\ \A i \in 1..Len(Attempts) : Attempts[i].outcome = "raise"
    /\ r_result = <<>>

(***************************************************************************)
(* C11.  Retries happen only for transient errors: when the source is      *)
(* unavailable or unsupported, every attempt fails with the permanent      *)
(* ValueError of line 475, so search_with_retry makes one attempt at most  *)
(* and never sleeps.                                                       *)
(***************************************************************************)
C11_NoRetryOnPermanentError ==
    ~r_available =>
       /\ Len(Attempts) <= 1
       /\ \A i \in 1..Len(r_events) : r_events[i].kind # "sleep"

(***************************************************************************)
(* Records.  A paper is a dict; a key that is missing holds Absent, a key  *)
(* that holds None holds Null.  year and citationCount are numbers, read   *)
(* only when year_is / cit_is is "set".  uid names the dict itself: no     *)
(* code reads it.                                                          *)
(***************************************************************************)
Absent == "<absent>"
Null == "<None>"

\* the order in which search_all queues the sources, lines 450-457
SourceOrder == <<"semantic_scholar", "arxiv", "pubmed">>

\* Semantic Scholar papers carry paperId, title, abstract, year and
\* citationCount (line 93) and source (line 103); no id and no doi.
S1 == [uid |-> "s1", source |-> "semantic_scholar", id |-> Absent,
       doi |-> Absent, title |-> "ML Health", abstract |-> "ml imaging",
       year_is |-> "set", year |-> 2021, cit_is |-> "set",
       citationCount |-> 150]
S2 == [uid |-> "s2", source |-> "semantic_scholar", id |-> Absent,
       doi |-> Absent, title |-> "ml health", abstract |-> "",
       year_is |-> "set", year |-> 2015, cit_is |-> "set",
       citationCount |-> 10]
S3 == [uid |-> "s3", source |-> "semantic_scholar", id |-> Absent,
       doi |-> Absent, title |-> "Deep Imaging", abstract |-> "ml",
       year_is |-> "null", year |-> 0, cit_is |-> "set",
       citationCount |-> 0]
\* arXiv papers carry id, title, summary, year, source (lines 173-206).
A1 == [uid |-> "a1", source |-> "arxiv", id |-> "2101.1",
       doi |-> Absent, title |-> "Deep Imaging", abstract |-> Absent,
       year_is |-> "set", year |-> 2021, cit_is |-> "absent",
       citationCount |-> 0]
A2 == [uid |-> "a2", source |-> "arxiv", id |-> "1002.2",
       doi |-> Absent, title |-> "ml health", abstract |-> Absent,
       year_is |-> "set", year |-> 2010, cit_is |-> "absent",
       citationCount |-> 0]
\* PubMed papers carry pmid, title, abstract, source and, when the article
\* has a DateCreated, year (lines 326-375).
P1 == [uid |-> "p1", source |-> "pubmed", id |-> Absent,
       doi |-> Absent, title |-> "ML Health", abstract |-> "ml",
       year_is |-> "absent", year |-> 0, cit_is |-> "absent",
       citationCount |-> 0]
P2 == [uid |-> "p2", source |-> "pubmed", id |-> Absent,
       doi |-> Absent, title |-> "", abstract |-> "",
       year_is |-> "set", year |-> 2024, cit_is |-> "absent",
       citationCount |-> 0]

\* what a source can answer to a query
Payloads(s) ==
    CASE s = "semantic_scholar" -> {<<>>, <<S1>>, <<S1, S2>>, <<S3>>}
      [] s = "arxiv" -> {<<>>, <<A1>>, <<A1, A2>>}
      [] s = "pubmed" -> {<<>>, <<P1>>, <<P1, P2>>}

Queries == {"ml", "ML Imaging"}

(***************************************************************************)
(* str.lower, str.strip and str.split on the strings above.                *)
(***************************************************************************)
Lower(str) ==
    CASE str = "ML Health" -> "ml health"
      [] str = "ML Health " -> "ml health "
      [] str = "Deep Health" -> "deep health"
      [] str = "10.1/A" -> "10.1/a"
      [] str = "10.1/B" -> "10.1/b"
      [] str = "Deep Imaging" -> "deep imaging"
      [] str = "ML Imaging" -> "ml imaging"
      [] OTHER -> str

Strip(str) ==
    CASE str = "ml health " -> "ml health"
      [] str = "ML Health " -> "ML Health"
      [] str = " " -> ""
      [] OTHER -> str

Split(str) ==
    CASE str = "ml health" -> <<"ml", "health">>
      [] str = "ml health " -> <<"ml", "health">>
      [] str = "ML Health " -> <<"ML", "Health">>
      [] str = "deep health" -> <<"deep", "health">>
      [] str = "Deep Health" -> <<"Deep", "Health">>
      [] str = " " -> <<>>
      [] str = "deep imaging" -> <<"deep", "imaging">>
      [] str = "ml imaging" -> <<"ml", "imaging">>
      [] str = "ML Health" -> <<"ML", "Health">>
      [] str = "Deep Imaging" -> <<"Deep", "Imaging">>
      [] str = "ML Imaging" -> <<"ML", "Imaging">>
      [] str = "" -> <<>>
      [] OTHER -> <<str>>

Range(seq) == {seq[i] : i \in 1..Len(seq)}

\* `term in title` for a word and a string above: no word is part of
\* another word
Contains(str, term) == term \in Range(Split(str))

\* bool(x) of a string, a missing key or None
Truthy(x) == x \notin {Absent, Null, ""}

\* d.get(key, "") of a string field
GetStr(x) == IF x = Absent THEN "" ELSE x

(***************************************************************************)
(* ResultAggregator.deduplicate_results, lines 295-331.                    *)
(***************************************************************************)
\* One round of the loop without the title check of lines 317-320.
DedupStepNoTitle(seen, result) ==
    LET doi == IF Truthy(result.doi) THEN Lower(result.doi) ELSE result.doi
        result_id == GetStr(result.id)
        seen1 == IF Truthy(doi)
                 THEN [seen EXCEPT !.dois = @ \cup {doi}] ELSE seen
        seen3 == IF Truthy(result_id)
                 THEN [seen1 EXCEPT !.ids = @ \cup {result_id}] ELSE seen1
    IN  IF Truthy(doi) /\ doi \in seen.dois THEN seen
        ELSE IF Truthy(result_id) /\ result_id \in seen1.ids THEN seen1
        ELSE [seen3 EXCEPT !.unique = Append(@, result)]

\* One round of the loop: seen is [dois, titles, ids, unique].
DedupStep(seen, result) ==
    LET doi == IF Truthy(result.doi) THEN Lower(result.doi) ELSE result.doi
        t0 == GetStr(result.title)
        title == IF Truthy(t0) THEN Strip(Lower(t0)) ELSE t0
        result_id == GetStr(result.id)
        seen1 == IF Truthy(doi)
                 THEN [seen EXCEPT !.dois = @ \cup {doi}] ELSE seen
        seen2 == IF Truthy(title)
                 THEN [seen1 EXCEPT !.titles = @ \cup {title}] ELSE seen1
        seen3 == IF Truthy(result_id)
                 THEN [seen2 EXCEPT !.ids = @ \cup {result_id}] ELSE seen2
    IN  IF Truthy(doi) /\ doi \in seen.dois THEN seen
        ELSE IF Truthy(title) /\ title \in seen1.titles THEN seen1
        ELSE IF Truthy(result_id) /\ result_id \in seen2.ids THEN seen2
        ELSE [seen3 EXCEPT !.unique = Append(@, result)]

RECURSIVE DedupLoop(_, _, _)
DedupLoop(results, i, seen) ==
    IF i > Len(results) THEN seen.unique
    ELSE DedupLoop(results, i + 1, DedupStep(seen, results[i]))

\* the loop started at the second record
deduplicate_from_second(results) ==
    DedupLoop(results, 2,
              [dois |-> {}, titles |-> {}, ids |-> {}, unique |-> <<>>])

deduplicate_results(results) ==
    DedupLoop(results, 1,
              [dois |-> {}, titles |-> {}, ids |-> {}, unique |-> <<>>])

(***************************************************************************)
(* sorted(..., reverse=True) and list.sort(reverse=True) on a field: a     *)
(* stable sort, records of equal score keep their order.                   *)
(***************************************************************************)
\* a descending sort that puts a record before the earlier ones of equal
\* score
RECURSIVE SortDescByUnstable(_, _)
SortDescByUnstable(seq, f) ==
    IF seq = <<>> THEN <<>>
    ELSE LET rest == SortDescByUnstable(SubSeq(seq, 1, Len(seq) - 1), f)
             x == seq[Len(seq)]
             n == Cardinality({i \in 1..Len(rest) : rest[i][f] > x[f]})
         IN  SubSeq(rest, 1, n) \o <<x>> \o SubSeq(rest, n + 1, Len(rest))

RECURSIVE SortDescBy(_, _)
SortDescBy(seq, f) ==
    IF seq = <<>> THEN <<>>
    ELSE LET rest == SortDescBy(SubSeq(seq, 1, Len(seq) - 1), f)
             x == seq[Len(seq)]
             n == Cardinality({i \in 1..Len(rest) : rest[i][f] >= x[f]})
         IN  SubSeq(rest, 1, n) \o <<x>> \o SubSeq(rest, n + 1, Len(rest))

(***************************************************************************)
(* SearchAgent.score_relevance, search_agent.py lines 75-105.              *)
(***************************************************************************)
\* paper.get("title", "").lower(), paper.get("abstract", "").lower(),
\* year >= 2020 and citations > 50 raise on None
RelevanceRaises(paper) ==
    \/ paper.title = Null
    \/ paper.abstract = Null
    \/ paper.year_is = "null"
    \/ paper.cit_is = "null"

RecentYear == 2020
ManyCitations == 50

RelevanceScore(paper, q) ==
    LET query_terms == Range(Split(Lower(q)))
        title == Lower(GetStr(paper.title))
        abstract == Lower(GetStr(paper.abstract))
        year == IF paper.year_is = "set" THEN paper.year ELSE 0
        citations == IF paper.cit_is = "set" THEN paper.citationCount ELSE 0
    IN  Cardinality(query_terms \cap Range(Split(title))) * 3
        + Cardinality(query_terms \cap Range(Split(abstract)))
        + (IF year >= RecentYear THEN 1 ELSE 0)
        + (IF citations > ManyCitations THEN 1 ELSE 0)

score_relevance(papers, q) ==
    SortDescBy([i \in 1..Len(papers) |->
                   [relevance_score |-> RelevanceScore(papers[i], q)]
                   @@ papers[i]],
               "relevance_score")

(***************************************************************************)
(* ResultAggregator.rank_results and _calculate_combined_score,            *)
(* search_workflow.py lines 333-344 and 374-402.  Scores are in            *)
(* thousandths.                                                            *)
(***************************************************************************)
CurrentYear == 2026

\* source_weights (lines 289-293) times the 0.2 of line 393
SourceShare(source) ==
    CASE source = "semantic_scholar" -> 240
      [] source = "pubmed" -> 220
      [] OTHER -> 200

\* `citations > 0` of line 380 raises on None
CombinedRaises(result) == result.cit_is = "null"

Min(a, b) == IF a < b THEN a ELSE b
Max(a, b) == IF a > b THEN a ELSE b

CombinedScore(result, q) ==
    LET citations == IF result.cit_is = "set" THEN result.citationCount ELSE 0
        \* min(citations / 100, 1.0) * 0.3
        cit == IF citations > 0 THEN Min(citations * 3, 300) ELSE 0
        \* (1 - max(0, (current_year - year) / 10)) * 0.2
        rec == IF result.year_is = "set" /\ result.year # 0
               THEN (10 - Max(0, CurrentYear - result.year)) * 20 ELSE 0
        title == Lower(GetStr(result.title))
        query_terms == Split(Lower(q))
        title_matches ==
            Cardinality({i \in 1..Len(query_terms) :
                            Contains(title, query_terms[i])})
        \* (title_matches / len(query_terms)) * 0.3
        tit == IF title_matches > 0
               THEN (title_matches * 300) \div Len(query_terms) ELSE 0
    IN  cit + rec + SourceShare(result.source) + tit

rank_results(results, q) ==
    SortDescBy([i \in 1..Len(results) |->
                   [combined_score |-> CombinedScore(results[i], q)]
                   @@ results[i]],
               "combined_score")

(***************************************************************************)
(* WorkflowProgressTracker, search_workflow.py lines 422-449.              *)
(***************************************************************************)
initialize_workflow(tracker, steps) ==
    [tracker EXCEPT !.steps = steps,
                    !.total_steps = Len(steps),
                    !.has_total_steps = TRUE]

\* list.index: the first position of x (0-based in the code, 1-based here)
IndexOf(seq, x) == CHOOSE i \in 1..Len(seq) :
                      seq[i] = x /\ \A j \in 1..(i - 1) : seq[j] # x

start_step(tracker, step_name, now) ==
    [tracker EXCEPT !.active_steps = @ \cup {step_name},
                    !.step_start_times = (step_name :> now) @@ @,
                    !.current_step =
                        IF step_name \in Range(tracker.steps)
                        THEN IndexOf(tracker.steps, step_name) ELSE @]

complete_step(tracker, step_name, result_count) ==
    [tracker EXCEPT !.active_steps = @ \ {step_name},
                    !.completed_steps = Append(@, step_name),
                    !.step_results = (step_name :> result_count) @@ @,
                    !.total_results = @ + result_count]

\* a log_error that appends nothing
log_error_dropped(tracker, step_name, error_message, now) == tracker

log_error(tracker, step_name, error_message, now) ==
    [tracker EXCEPT !.errors =
        Append(@, [step |-> step_name, error |-> error_message,
                   timestamp |-> now])]

\* get_completion_status()["is_complete"], line 479
is_complete(tracker) ==
    Len(tracker.completed_steps) = tracker.total_steps

(***************************************************************************)
(* APIIntegrationManager and the source clients, api_integrations.py.      *)
(***************************************************************************)
\* lines 409-417; self.pubmed is set when an email is configured and
\* BioPython imports (lines 400-407)
is_available(api_name) ==
    CASE api_name = "semantic_scholar" -> "semantic_scholar" \in api_keys
      [] api_name = "arxiv" -> TRUE
      [] api_name = "pubmed" -> "pubmed" \in api_keys /\ biopython
      [] OTHER -> FALSE

\* Each client builds its own RateLimiter (lines 59, 130, 260) and its
\* search calls self.rate_limiter.acquire() (lines 83, 219, 277).
LimiterShared(s) == "semantic_scholar"
LimiterOf(s) == s

\* What a client's search returns when it hit an error: lines 110-117,
\* 237-243, 310-312.
FailedResult(s) == <<>>

\* the sources whose search task is still to start
Ready == {s \in Sources : s_pc[s] = "ready"}

\* gather starts the tasks in the order search_all queued them
NextToStart(s) ==
    /\ s \in Ready
    /\ \A i, j \in 1..Len(SourceOrder) :
          (SourceOrder[j] = s /\ i < j) => SourceOrder[i] \notin Ready

\* The client's search from the return of acquire() to its next
\* suspension.  Semantic Scholar and arXiv send their request with aiohttp
\* and wait for the response (lines 96, 232).  PubMed calls Entrez, which
\* blocks: esearch, and efetch when esearch found ids (lines 282-308); any
\* exception ends the search with [] (line 310).
AfterAcquire(s, log) ==
    IF s = "pubmed"
    THEN \E out \in {"esearch_raises", "no_ids", "efetch_raises", "ok"} :
         \E papers \in Payloads(s) \ {<<>>} :
            /\ s_pc' = [s_pc EXCEPT ![s] = "done"]
            /\ s_log' = [s_log EXCEPT ![s] =
                  log \o (IF out \in {"esearch_raises", "no_ids"}
                          THEN <<<<"request", s>>>>
                          ELSE <<<<"request", s>>, <<"request", s>>>>)]
            /\ s_failed' = [s_failed EXCEPT ![s] =
                  out \in {"esearch_raises", "efetch_raises"}]
            /\ s_result' = [s_result EXCEPT ![s] =
                  CASE out = "ok" -> papers
                    [] out = "no_ids" -> <<>>
                    [] OTHER -> FailedResult(s)]
    ELSE /\ s_pc' = [s_pc EXCEPT ![s] = "requesting"]
         /\ s_log' = [s_log EXCEPT ![s] = Append(log, <<"request", s>>)]
         /\ UNCHANGED <<s_failed, s_result>>

wfConfig == <<api_keys, biopython, query, max_results, deadline>>

\* The search task of source s starts: APIIntegrationManager.search (lines
\* 419-432) calls the client's search, which calls acquire() on its
\* limiter.  acquire() returns at once or sleeps first (SpecRateLimiter).
SourceStart(s) ==
    /\ w_pc = "gathering"
    /\ NextToStart(s)
    /\ is_available(s)
    /\ LET log == Append(s_log[s], <<"acquire", LimiterOf(s)>>) IN
       \/ AfterAcquire(s, Append(log, <<"acquired", LimiterOf(s)>>))
       \/ /\ s_pc' = [s_pc EXCEPT ![s] = "acquiring"]
          /\ s_log' = [s_log EXCEPT ![s] = log]
          /\ UNCHANGED <<s_failed, s_result>>
    /\ UNCHANGED <<wfConfig, clock, w_pc, progress_tracker, w_result,
                   w_raised, all_papers>>
    /\ UNCHANGED <<rlVars, retryVars, libVars, restVars>>

\* acquire() of the search of source s returns after its sleep.
AcquireReturns(s) ==
    /\ s_pc[s] = "acquiring"
    /\ AfterAcquire(s, Append(s_log[s], <<"acquired", LimiterOf(s)>>))
    /\ UNCHANGED <<wfConfig, clock, w_pc, progress_tracker, w_result,
                   w_raised, all_papers>>
    /\ UNCHANGED <<rlVars, retryVars, libVars, restVars>>

\* The response to the request of Semantic Scholar or arXiv arrives, or the
\* request raises: lines 96-117 and 232-243.
Respond(s) ==
    /\ s_pc[s] = "requesting"
    /\ \E out \in {"200", "500", "raises"}
                  \cup (IF s = "semantic_scholar" THEN {"429"} ELSE {}) :
       \E papers \in Payloads(s) :
          /\ s_pc' = [s_pc EXCEPT ![s] =
                IF out = "429" THEN "retry_after" ELSE "done"]
          /\ s_failed' = [s_failed EXCEPT ![s] = out # "200"]
          /\ s_result' = [s_result EXCEPT ![s] =
                IF out = "200" THEN papers ELSE FailedResult(s)]
    /\ UNCHANGED <<wfConfig, clock, w_pc, progress_tracker, w_result,
                   w_raised, all_papers, s_log>>
    /\ UNCHANGED <<rlVars, retryVars, libVars, restVars>>

\* Semantic Scholar's sleep of Retry-After seconds is over (lines 107-110).
RetryAfterOver(s) ==
    /\ s_pc[s] = "retry_after"
    /\ s_pc' = [s_pc EXCEPT ![s] = "done"]
    /\ UNCHANGED <<wfConfig, clock, w_pc, progress_tracker, w_result,
                   w_raised, all_papers, s_log, s_failed, s_result>>
    /\ UNCHANGED <<rlVars, retryVars, libVars, restVars>>

\* Time passes while a search task is suspended.
Pending == {s \in Sources : s_pc[s] \in {"acquiring", "requesting",
                                          "retry_after"}}

RunTick ==
    /\ w_pc = "gathering"
    /\ Pending # {}
    /\ clock < MaxClock
    /\ clock' = clock + 1
    /\ UNCHANGED <<wfConfig, w_pc, s_pc, s_result, progress_tracker,
                   w_result, w_raised, s_log, s_failed, all_papers>>
    /\ UNCHANGED <<rlVars, retryVars, libVars, restVars>>

\* search_all, lines 462-470: the lists of the tasks, in the order queued
RECURSIVE Combine(_, _)
Combine(results, order) ==
    IF order = <<>> THEN <<>>
    ELSE (IF is_available(Head(order)) THEN results[Head(order)] ELSE <<>>)
         \o Combine(results, Tail(order))

Steps == <<"api_search", "deduplication", "ranking", "final_results">>

(***************************************************************************)
(* The calls a workflow makes on the tracker.  tl is the tracker with the  *)
(* list of the calls made on it, which nothing in the code keeps.          *)
(***************************************************************************)
Tracked(tracker) == [tracker |-> tracker, log |-> <<>>]

Called(tl, call, step_name, tracker) ==
    [tracker |-> tracker,
     log |-> Append(tl.log, [call |-> call, step |-> step_name])]

\* reset() and initialize_workflow(steps), lines 500-503 and 575-578
Begun(tl, steps) ==
    Called(tl, "initialize_workflow", "",
           initialize_workflow(reset(tl.tracker), steps))

Started(tl, step_name, now) ==
    Called(tl, "start_step", step_name,
           start_step(tl.tracker, step_name, now))

Completed(tl, step_name, result_count) ==
    Called(tl, "complete_step", step_name,
           complete_step(tl.tracker, step_name, result_count))

Errored(tl, step_name, error_message, now) ==
    Called(tl, "log_error", step_name,
           log_error(tl.tracker, step_name, error_message, now))

\* execute_search_workflow up to its await of search_all_databases, lines
\* 500-508
basic_begin(tl, now) == Started(Begun(tl, Steps), "api_search", now)

\* What lines 513, 518-520 and 525 compute of the list search_all_databases
\* returned: score_relevance and rank_results raise on a None they compare
\* with a number.
BasicOutcome(results, q, n) ==
    LET unique_results == deduplicate_results(results)
        scoring_raises ==
            \E i \in 1..Len(unique_results) :
               RelevanceRaises(unique_results[i])
               \/ CombinedRaises(unique_results[i])
        ranked_results ==
            rank_results(score_relevance(unique_results, q), q)
    IN  [unique_results |-> unique_results,
         raised |-> scoring_raises,
         ranked_results |-> IF scoring_raises THEN <<>> ELSE ranked_results,
         final_results |->
            IF scoring_raises THEN <<>>
            ELSE SubSeq(ranked_results, 1, Min(n, Len(ranked_results)))]

\* execute_search_workflow from the return of search_all_databases to its
\* own return, lines 509-533: out is BasicOutcome of the list returned
basic_finish(tl, results, out, now) ==
    LET t1 == Completed(tl, "api_search", Len(results))
        t2 == Completed(Started(t1, "deduplication", now),
                        "deduplication", Len(out.unique_results))
        t3 == Started(t2, "ranking", now)
        t4 == Completed(t3, "ranking", Len(out.ranked_results))
        t5 == Completed(Started(t4, "final_results", now),
                        "final_results", Len(out.final_results))
    IN  IF out.raised
        THEN Errored(t3, "workflow_execution", "TypeError", now)
        ELSE t5

\* execute_search_workflow from its start to the gather of search_all:
\* lines 500-508 and 446-460.
StartRun ==
    /\ w_pc = "idle"
    /\ progress_tracker' = basic_begin(Tracked(progress_tracker), clock).tracker
    /\ s_pc' = [s \in Sources |-> IF is_available(s) THEN "ready" ELSE "off"]
    /\ w_pc' = "gathering"
    /\ UNCHANGED <<wfConfig, clock, s_result, w_result, w_raised, s_log,
                   s_failed, all_papers>>
    /\ UNCHANGED <<rlVars, retryVars, libVars, restVars>>

\* execute_search_workflow from the return of gather to its own return:
\* lines 462-470 and 509-533.  Nothing awaits in between (score_relevance
\* is a coroutine that never suspends), so it is one step.
FinishRun ==
    /\ w_pc = "gathering"
    /\ \A s \in Sources : s_pc[s] \in {"off", "done"}
    /\ LET results == Combine(s_result, SourceOrder)
           out == BasicOutcome(results, query, max_results)
       IN  /\ all_papers' = results
           /\ progress_tracker' =
                 basic_finish(Tracked(progress_tracker), results, out,
                              clock).tracker
           /\ w_result' = out.final_results
    /\ w_pc' = "done"
    /\ UNCHANGED <<wfConfig, clock, s_pc, s_result, w_raised, s_log,
                   s_failed>>
    /\ UNCHANGED <<rlVars, retryVars, libVars, restVars>>

InitWorkflow ==
    /\ api_keys \in SUBSET {"semantic_scholar", "pubmed"}
    /\ biopython \in BOOLEAN
    /\ "pubmed" \notin api_keys => biopython
    /\ query \in Queries
    /\ max_results \in 1..MaxResults
    /\ deadline \in 1..(MaxClock - 1)
    /\ NewOrchestrator
    /\ NoLimiterUse
    /\ NoRetry
    /\ NoLib
    /\ NoRest

NextWorkflow ==
    \/ StartRun
    \/ \E s \in Sources : SourceStart(s)
    \/ \E s \in Sources : AcquireReturns(s)
    \/ \E s \in Sources : Respond(s)
    \/ \E s \in Sources : RetryAfterOver(s)
    \/ RunTick
    \/ FinishRun

SpecWorkflow == InitWorkflow /\ [][NextWorkflow]_vars

\* the sources search_all dispatched, and those whose search hit an error
Available == {s \in Sources : is_available(s)}
Failed == {s \in Sources : s_failed[s]}

Uids(papers) == {papers[i].uid : i \in 1..Len(papers)}

Events(s, kind) == SelectSeq(s_log[s], LAMBDA e : e[1] = kind)

(***************************************************************************)
(* C4.  A client's search issues a network request only after acquire() on *)
(* that client's own limiter has returned, and a search that issued a      *)
(* request has performed exactly one acquire(), on its own limiter and on  *)
(* no other source's.                                                      *)
(***************************************************************************)
C4_AcquireBeforeRequest ==
    \A s \in Sources :
       /\ \A i \in 1..Len(s_log[s]) :
             s_log[s][i][1] = "request" =>
                /\ s_log[s][i][2] = s
                /\ \E j \in 1..(i - 1) : s_log[s][j] = <<"acquired", s>>
       /\ Events(s, "request") # <<>> =>
             Events(s, "acquire") = <<<<"acquire", s>>>>

\* PubMed's search sent esearch and efetch on its one slot, and another
\* client sent its request after sleeping in acquire()
C4_Witness ==
    /\ Len(Events("pubmed", "request")) = 2
    /\ Len(Events("pubmed", "acquire")) = 1
    /\ \E s \in Sources \ {"pubmed"} :
          /\ Events(s, "request") # <<>>
          /\ clock > 0

(***************************************************************************)
(* C5.  Graceful degradation: when all but one of the available sources    *)
(* fail and the remaining one answers with records, search_all and the     *)
(* workflow raise nothing, search_all returns exactly the survivor's       *)
(* records and the workflow returns records of the survivor (read          *)
(* generously: some of them, and no others).                               *)
(***************************************************************************)
C5_GracefulDegradation ==
    \A s \in Available :
       ( /\ w_pc = "done"
         /\ Cardinality(Available) >= 2
         /\ Failed = Available \ {s}
         /\ s_result[s] # <<>> )
       => /\ ~w_raised
          /\ all_papers = s_result[s]
          /\ w_result # <<>>
          /\ Uids(w_result) \subseteq Uids(s_result[s])

(***************************************************************************)
(* C6.  Every per-source failure of a run is captured in the run's error   *)
(* list: after a run in which k sources failed, the tracker's errors hold  *)
(* k entries.                                                              *)
(***************************************************************************)
C6_ErrorsPerFailedSource ==
    w_pc = "done" => Len(progress_tracker.errors) = Cardinality(Failed)

(***************************************************************************)
(* C7.  Total failure is distinguishable from an empty success: when every *)
(* dispatched source failed, the run ends with an error recorded and does  *)
(* not complete all its steps.                                             *)
(***************************************************************************)
C7_TotalFailureIsFailure ==
    (w_pc = "done" /\ Failed = Available) =>
       /\ progress_tracker.errors # <<>>
       /\ ~is_complete(progress_tracker)

(***************************************************************************)
(* C8.  A run honors the caller's deadline: no run is still waiting for    *)
(* its source calls after the deadline.                                    *)
(***************************************************************************)
C8_EndsByDeadline ==
    w_pc = "gathering" => clock <= deadline

(***************************************************************************)
(* C12.  A client that receives HTTP 429 reports a distinguished           *)
(* rate-limited outcome: what its search returns then is nothing a         *)
(* successful search can return (an empty list included) and not what a    *)
(* permanent failure returns.                                              *)
(***************************************************************************)
C12_RateLimitedIsDistinguished ==
    \A s \in Sources :
       s_pc[s] = "retry_after" =>
          /\ s_result[s] \notin Payloads(s)
          /\ s_result[s] # FailedResult(s)

(***************************************************************************)
(* ResultAggregator.deduplicate_results applied to lists of records, and   *)
(* applied again to what it returned.                                      *)
(***************************************************************************)
Paper(uid, source, id, doi, title) ==
    [uid |-> uid, source |-> source, id |-> id, doi |-> doi,
     title |-> title, abstract |-> Absent, year_is |-> "absent", year |-> 0,
     cit_is |-> "absent", citationCount |-> 0]

\* records as the clients and the tests build them: DOIs that differ in
\* case only, titles that differ in case or white space only, an id used by
\* two sources, missing and None fields
DedupPool ==
    { Paper("d1", "semantic_scholar", "1", "10.1/A", "ML Health"),
      Paper("d2", "arxiv", "2", "10.1/a", "Deep Imaging"),
      Paper("d3", "pubmed", "3", "10.1/b", "ML Health "),
      Paper("d4", "arxiv", "1", "10.1/B", "Deep Health"),
      Paper("d5", "pubmed", Absent, Null, " "),
      Paper("d6", "semantic_scholar", "", Absent, " "),
      Paper("d7", "pubmed", Absent, Absent, "Deep Imaging") }

RECURSIVE ListsOf(_, _)
ListsOf(pool, n) ==
    IF n = 0 THEN {<<>>}
    ELSE LET shorter == ListsOf(pool, n - 1)
         IN  shorter \cup {Append(l, x) : l \in {m \in shorter : Len(m) = n - 1},
                                          x \in pool}

Deduplicate ==
    /\ d_pc = "input"
    /\ d_unique' = deduplicate_results(d_results)
    /\ d_pc' = "once"
    /\ UNCHANGED <<d_results, d_again>>
    /\ UNCHANGED <<rlVars, retryVars, wfVars, rankVars, embVars, restVars>>

DeduplicateAgain ==
    /\ d_pc = "once"
    /\ d_again' = deduplicate_results(d_unique)
    /\ d_pc' = "twice"
    /\ UNCHANGED <<d_results, d_unique>>
    /\ UNCHANGED <<rlVars, retryVars, wfVars, rankVars, embVars, restVars>>

InitDedup ==
    /\ d_results \in ListsOf(DedupPool, MaxRecords)
    /\ d_unique = <<>>
    /\ d_again = <<>>
    /\ d_pc = "input"
    /\ NoLimiterUse
    /\ NoRetry
    /\ NoRun
    /\ NoRanking
    /\ NoEmbedding
    /\ NoRest

NextDedup ==
    \/ Deduplicate
    \/ DeduplicateAgain

SpecDedup == InitDedup /\ [][NextDedup]_vars

(***************************************************************************)
(* C13.  Dedup idempotence: deduplicate_results applied to its own output  *)
(* returns that output.                                                    *)
(***************************************************************************)
C13_DedupIdempotent ==
    d_pc = "twice" => d_again = d_unique

\* the first pass dropped a record and kept at least two
C13_Witness ==
    /\ d_pc = "twice"
    /\ Len(d_unique) < Len(d_results)
    /\ Len(d_unique) >= 2
    /\ d_again = d_unique

RECURSIVE IsSubsequence(_, _)
IsSubsequence(a, b) ==
    IF a = <<>> THEN TRUE
    ELSE IF b = <<>> THEN FALSE
    ELSE IF Head(a) = Head(b) THEN IsSubsequence(Tail(a), Tail(b))
    ELSE IsSubsequence(a, Tail(b))

SameDoi(x, y) ==
    /\ x.doi \notin {Absent, Null, ""}
    /\ y.doi \notin {Absent, Null, ""}
    /\ Lower(x.doi) = Lower(y.doi)

SameId(x, y) ==
    /\ x.id \notin {Absent, Null, ""}
    /\ x.id = y.id

TitleOf(x) == IF x.title \in {Absent, Null} THEN "" ELSE x.title

SameLoweredTitle(x, y) ==
    /\ Lower(TitleOf(x)) # ""
    /\ Lower(TitleOf(x)) = Lower(TitleOf(y))

SameNormalizedTitle(x, y) ==
    /\ Strip(Lower(TitleOf(x))) # ""
    /\ Strip(Lower(TitleOf(x))) = Strip(Lower(TitleOf(y)))

FirstKeptInOrder ==
    /\ IsSubsequence(d_unique, d_results)
    /\ d_results # <<>> =>
          /\ d_unique # <<>>
          /\ Head(d_unique) = Head(d_results)

C15_TitleOnlyWithoutDoi ==
    ( /\ d_pc # "input"
      /\ Len(d_results) = 2
      /\ d_results[1].doi \notin {Absent, Null, ""}
      /\ d_results[2].doi \notin {Absent, Null, ""}
      /\ ~SameDoi(d_results[1], d_results[2])
      /\ ~SameId(d_results[1], d_results[2]) )
    => d_unique = d_results

(***************************************************************************)
(* C16.  Cross-source identity is established only by DOI or title: two    *)
(* records of different sources with different DOIs and different titles   *)
(* are both retained, even when their ids coincide.                        *)
(***************************************************************************)
C16_IdIsSourceLocal ==
    ( /\ d_pc # "input"
      /\ Len(d_results) = 2
      /\ d_results[1].source # d_results[2].source
      /\ d_results[1].doi \notin {Absent, Null, ""}
      /\ d_results[2].doi \notin {Absent, Null, ""}
      /\ ~SameDoi(d_results[1], d_results[2])
      /\ ~SameNormalizedTitle(d_results[1], d_results[2]) )
    => d_unique = d_results

(***************************************************************************)
(* HybridSearchRanker, vector_search.py lines 180-236, and                 *)
(* ResultAggregator.rank_results.  Weights are in millionths.              *)
(***************************************************************************)
One == 1000000

Abs(x) == IF x < 0 THEN -x ELSE x

\* np.isclose(a, 1.0) with numpy's defaults rtol = 1e-5 and atol = 1e-8:
\* |a - 1.0| <= 1e-8 + 1e-5 * 1.0, which for a whole number of millionths
\* is |a - 1.0| <= 10 millionths
IsCloseTolerance == 10
IsCloseToOne(a) == Abs(a - One) <= IsCloseTolerance

\* the weights a caller may pass: the defaults 0.7 and 0.3, and values
\* next to 0.3
Weights == {700000, 300000, 300001, 300010, 300011}

\* A behaviour follows the construction of rankers and then one ranking
\* call: the ranking functions read nothing an earlier call wrote.
NothingRanked == last_call.fn \in {"none", "HybridSearchRanker"}

\* HybridSearchRanker.__init__, lines 183-188
NewRanker(sw, kw) ==
    /\ NothingRanked
    /\ IF IsCloseToOne(sw + kw)
       THEN /\ ranker' = [exists |-> TRUE, semantic_weight |-> sw,
                          keyword_weight |-> kw]
            /\ last_call' = [fn |-> "HybridSearchRanker", semantic_weight |-> sw,
                             keyword_weight |-> kw, raised |-> FALSE]
       ELSE /\ ranker' = ranker
            /\ last_call' = [fn |-> "HybridSearchRanker", semantic_weight |-> sw,
                             keyword_weight |-> kw, raised |-> TRUE]
    /\ UNCHANGED <<rlVars, retryVars, wfVars, dedupVars, embVars, restVars>>

Construct == \E sw \in Weights, kw \in Weights : NewRanker(sw, kw)

\* rank_documents, lines 218-236: the documents in the order of
\* scored_docs, each a copy with its hybrid_score
rank_documents(documents, scores) ==
    LET scored_docs ==
            SortDescBy([i \in 1..Len(documents) |->
                           [doc |-> documents[i], score |-> scores[i]]],
                       "score")
    IN  [i \in 1..Len(scored_docs) |->
            [hybrid_score |-> scored_docs[i].score] @@ scored_docs[i].doc]

Doc(i) == [id |-> i]

RankDocuments ==
    /\ NothingRanked
    /\ ranker.exists
    /\ \E n \in 0..MaxRecords, scores \in ListsOf(0..MaxScore, MaxRecords) :
         LET documents == [i \in 1..n |-> Doc(i)] IN
         last_call' =
            IF Len(documents) # Len(scores)
            THEN [fn |-> "rank_documents", documents |-> documents,
                  scores |-> scores, raised |-> TRUE]
            ELSE [fn |-> "rank_documents", documents |-> documents,
                  scores |-> scores, raised |-> FALSE,
                  returned |-> rank_documents(documents, scores),
                  again |-> rank_documents(documents, scores)]
    /\ UNCHANGED ranker
    /\ UNCHANGED <<rlVars, retryVars, wfVars, dedupVars, embVars, restVars>>

\* an arXiv paper that scores as A1 does unless the query names "imaging"
A3 == [uid |-> "a3", source |-> "arxiv", id |-> "2101.3",
       doi |-> Absent, title |-> "Deep Health", abstract |-> Absent,
       year_is |-> "set", year |-> 2021, cit_is |-> "absent",
       citationCount |-> 0]

RankPool == {S1, A1, A2, A3, P1}

\* rank_results, lines 333-344.  The call writes combined_score into the
\* dicts of its argument (line 339) and leaves the list in its order:
\* results_after is what the caller's list holds when the call returned,
\* and a second call gets that list of the same dicts.
RankResults ==
    /\ NothingRanked
    /\ \E results \in ListsOf(RankPool, MaxRecords), q \in Queries :
         LET written == [i \in 1..Len(results) |->
                            [combined_score |-> CombinedScore(results[i], q)]
                            @@ results[i]]
         IN  last_call' =
                [fn |-> "rank_results", results |-> results, query |-> q,
                 raised |-> FALSE,
                 returned |-> rank_results(results, q),
                 results_after |-> written,
                 again |-> rank_results(written, q)]
    /\ UNCHANGED ranker
    /\ UNCHANGED <<rlVars, retryVars, wfVars, dedupVars, embVars, restVars>>

InitRank ==
    /\ NoRanking
    /\ NoLimiterUse
    /\ NoRetry
    /\ NoRun
    /\ NoDedup
    /\ NoEmbedding
    /\ NoRest

NextRank ==
    \/ Construct
    \/ RankDocuments
    \/ RankResults

SpecRank == InitRank /\ [][NextRank]_vars

\* The records of a ranked list, its scores, and where each record stood in
\* the input.  A document of rank_documents is named by its id, a result of
\* rank_results by its uid.
ScoreField == IF last_call.fn = "rank_documents" THEN "hybrid_score"
              ELSE "combined_score"
NameField == IF last_call.fn = "rank_documents" THEN "id" ELSE "uid"
RankInput == IF last_call.fn = "rank_documents" THEN last_call.documents
             ELSE last_call.results

\* out is the input rearranged: position i of out holds the input record
\* at position perm[i], and perm is a bijection
IsStableDescending(out, perm) ==
    /\ DOMAIN perm = 1..Len(out)
    /\ Len(out) = Len(RankInput)
    /\ {perm[i] : i \in 1..Len(out)} = 1..Len(RankInput)
    /\ \A i \in 1..Len(out) :
          out[i][NameField] = RankInput[perm[i]][NameField]
    /\ \A i, j \in 1..Len(out) :
          i < j => /\ out[i][ScoreField] >= out[j][ScoreField]
                   /\ out[i][ScoreField] = out[j][ScoreField]
                         => perm[i] < perm[j]

(***************************************************************************)
(* C17.  Ranking is a stable descending sort: rank_documents and           *)
(* rank_results return their input rearranged by non-increasing score,     *)
(* records of equal score in their input order, and ranking the same input *)
(* again gives the same order.                                             *)
(***************************************************************************)
C17_StableDescendingSort ==
    (last_call.fn \in {"rank_documents", "rank_results"} /\ ~last_call.raised)
    => /\ \E perm \in [1..Len(last_call.returned) -> 1..Len(RankInput)] :
             IsStableDescending(last_call.returned, perm)
       /\ last_call.again = last_call.returned

\* three records, the first and the last of equal score and the middle one
\* of a higher score
C17_Witness ==
    /\ last_call.fn = "rank_results"
    /\ Len(last_call.returned) = 3
    /\ last_call.returned[1].uid = last_call.results[2].uid
    /\ last_call.returned[2].uid = last_call.results[1].uid
    /\ last_call.returned[3].uid = last_call.results[3].uid
    /\ last_call.returned[2].uid # last_call.returned[3].uid
    /\ last_call.returned[2].combined_score
          = last_call.returned[3].combined_score

(***************************************************************************)
(* C18.  Weight-sum invariant: every HybridSearchRanker that exists has    *)
(* weights that sum to 1.0, to within one millionth, and they are the      *)
(* weights it was constructed with; a construction with any other sum      *)
(* raises.                                                                 *)
(***************************************************************************)
C18_WeightsSumToOne ==
    /\ ranker.exists =>
          Abs(ranker.semantic_weight + ranker.keyword_weight - 1000000) <= 1
    /\ last_call.fn = "HybridSearchRanker" =>
          /\ last_call.raised <=>
                Abs(last_call.semantic_weight + last_call.keyword_weight
                    - 1000000) > 1
          /\ ~last_call.raised =>
                /\ ranker.semantic_weight = last_call.semantic_weight
                /\ ranker.keyword_weight = last_call.keyword_weight

(***************************************************************************)
(* C23.  Records are never changed in place: when rank_results returns,    *)
(* the list it was given holds the records it held at the call, field for  *)
(* field.  The code assigns result["combined_score"] on the dicts of its   *)
(* argument (line 339), and so do apply_source_weights (line 351),         *)
(* score_relevance (search_agent.py line 102), coordinate_parallel_search  *)
(* (line 563) and the enhanced workflow (line 612) with their keys.        *)
(***************************************************************************)
C23_NeverMutatedInPlace ==
    last_call.fn = "rank_results" =>
       last_call.results_after = last_call.results

(***************************************************************************)
(* EmbeddingGenerator, vector_search.py lines 37-119.                      *)
(* A vector is the sequence of its components.                             *)
(***************************************************************************)
\* embedding_dim: 768 in the code (lines 47-54)
EmbeddingDim == 2

Texts == {"a", "b", "c"}

\* the model's answers differ from call to call in these components
EmbeddingValues == {1, 2}

Vector(d, v) == [i \in 1..d |-> v]

\* np.zeros(self.embedding_dim), lines 83 and 110
Zeros == Vector(EmbeddingDim, 0)

\* `text in self.cache` and `self.cache[text]`, lines 59-60
InCache(c, text) == \E i \in 1..Len(c) : c[i].text = text
Lookup(c, text) == c[CHOOSE i \in 1..Len(c) : c[i].text = text].embedding

\* _add_to_cache, lines 112-119: at capacity the first key is deleted,
\* whatever the text; assigning to a key the dict holds keeps its place
add_to_cache(c, text, embedding) ==
    LET kept == IF Len(c) >= cache_size THEN Tail(c) ELSE c
    IN  IF InCache(kept, text)
        THEN [i \in 1..Len(kept) |->
                 IF kept[i].text = text
                 THEN [text |-> text, embedding |-> embedding] ELSE kept[i]]
        ELSE Append(kept, [text |-> text, embedding |-> embedding])

\* the loop of lines 102-103
RECURSIVE AddAll(_, _, _)
AddAll(c, texts, embeddings) ==
    IF texts = <<>> THEN c
    ELSE AddAll(add_to_cache(c, Head(texts), Head(embeddings)),
                Tail(texts), Tail(embeddings))

\* What model.encode does with one text: it raises, or returns a vector of
\* d components.
EncodeOutcomes ==
    {[raises |-> TRUE, rows |-> 0, dim |-> 0, value |-> 0]}
    \cup {[raises |-> FALSE, rows |-> 0, dim |-> d, value |-> v] :
             d \in {EmbeddingDim, EmbeddingDim + 1}, v \in EmbeddingValues}

\* ... and with n texts: it raises, or returns an array of r rows of d
\* components.
BatchEncodeOutcomes(n) ==
    {[raises |-> TRUE, rows |-> 0, dim |-> 0, value |-> 0]}
    \cup {[raises |-> FALSE, rows |-> r, dim |-> d, value |-> v] :
             r \in {n, n + 1}, d \in {EmbeddingDim, EmbeddingDim + 1},
             v \in EmbeddingValues}

\* np.random.rand(self.embedding_dim), line 67, and np.random.rand(len(texts),
\* self.embedding_dim), line 93: the shape asked for, the components drawn
\* anew at every call
RandOutcomes ==
    {[raises |-> FALSE, rows |-> 0, dim |-> EmbeddingDim, value |-> v] :
        v \in EmbeddingValues}

BatchRandOutcomes(n) ==
    {[raises |-> FALSE, rows |-> n, dim |-> EmbeddingDim, value |-> v] :
        v \in EmbeddingValues}

\* generate_embedding, lines 57-83
generate_embedding(text) ==
    IF InCache(cache, text)
    THEN /\ e_call' = [fn |-> "generate_embedding", hit |-> TRUE,
                       cached |-> Lookup(cache, text),
                       model_called |-> FALSE, wrong_shape |-> FALSE,
                       raised |-> FALSE, returned |-> Lookup(cache, text)]
         /\ UNCHANGED cache
    ELSE \E out \in (IF model_loaded THEN EncodeOutcomes ELSE RandOutcomes) :
         LET embedding == Vector(out.dim, out.value)
             wrong == ~out.raises /\ out.dim # EmbeddingDim
             ok == ~out.raises /\ ~wrong
         IN  /\ e_call' = [fn |-> "generate_embedding", hit |-> FALSE,
                           cached |-> <<>>,
                           model_called |-> model_loaded,
                           wrong_shape |-> wrong, raised |-> FALSE,
                           returned |-> IF ok THEN embedding ELSE Zeros]
             /\ cache' = IF ok THEN add_to_cache(cache, text, embedding)
                         ELSE cache

GenerateEmbedding ==
    /\ \E text \in Texts :
          /\ generate_embedding(text)
          /\ e_seen' = IF model_loaded THEN e_seen
                       ELSE e_seen \cup {[text |-> text,
                                          returned |-> e_call'.returned]}
    /\ UNCHANGED <<cache_size, model_loaded>>
    /\ UNCHANGED <<rlVars, retryVars, wfVars, dedupVars, rankVars, restVars>>

\* generate_batch_embeddings, lines 85-110: the cache is not read
generate_batch_embeddings(texts) ==
    \E out \in (IF model_loaded THEN BatchEncodeOutcomes(Len(texts))
               ELSE BatchRandOutcomes(Len(texts))) :
       LET embeddings == [i \in 1..out.rows |-> Vector(out.dim, out.value)]
           wrong == /\ ~out.raises
                    /\ (out.rows # Len(texts) \/ out.dim # EmbeddingDim)
           ok == ~out.raises /\ ~wrong
           hit == \A i \in 1..Len(texts) : InCache(cache, texts[i])
       IN  /\ e_call' = [fn |-> "generate_batch_embeddings", hit |-> hit,
                         cached |-> IF hit
                                    THEN [i \in 1..Len(texts) |->
                                             Lookup(cache, texts[i])]
                                    ELSE <<>>,
                         model_called |-> model_loaded,
                         wrong_shape |-> wrong, raised |-> FALSE,
                         returned |-> IF ok THEN embeddings
                                      ELSE [i \in 1..Len(texts) |-> Zeros]]
           /\ cache' = IF ok THEN AddAll(cache, texts, embeddings) ELSE cache

GenerateBatchEmbeddings ==
    /\ \E texts \in ListsOf(Texts, MaxBatch) \ {<<>>} :
          generate_batch_embeddings(texts)
    /\ UNCHANGED <<cache_size, model_loaded, e_seen>>
    /\ UNCHANGED <<rlVars, retryVars, wfVars, dedupVars, rankVars, restVars>>

InitEmbedding ==
    /\ cache_size \in 1..MaxCacheSize
    /\ model_loaded = TRUE
    /\ NewGenerator
    /\ NoLimiterUse
    /\ NoRetry
    /\ NoRun
    /\ NoDedup
    /\ NoRanking
    /\ NoRest

NextEmbedding ==
    \/ GenerateEmbedding
    \/ GenerateBatchEmbeddings

SpecEmbedding == InitEmbedding /\ [][NextEmbedding]_vars

(***************************************************************************)
(* C19.  Dimension mismatch fails loudly: when the model returns a vector  *)
(* (or a batch) of the wrong shape, generate_embedding (or                 *)
(* generate_batch_embeddings) raises and returns no vector.                *)
(***************************************************************************)
C19_MismatchRaises ==
    (e_call.fn # "none" /\ e_call.wrong_shape) => e_call.raised

(***************************************************************************)
(* C20.  Cache hit means no model call: when the embedding of every text   *)
(* of a call is in the cache, generate_embedding and                       *)
(* generate_batch_embeddings return the cached vectors and do not invoke   *)
(* the model.                                                              *)
(***************************************************************************)
C20_CacheHitNoModelCall ==
    (e_call.fn # "none" /\ e_call.hit) =>
       /\ ~e_call.model_called
       /\ e_call.returned = e_call.cached

CachedTexts(c) == {c[i].text : i \in 1..Len(c)}

(***************************************************************************)
(* C21.  The cache never holds more than cache_size entries, and a call    *)
(* drops an entry only to make room: it drops no more entries than it      *)
(* inserts texts that were not cached, and a generate_embedding call that  *)
(* drops anything found the cache full and drops exactly the entry         *)
(* inserted earliest.                                                      *)
(***************************************************************************)
C21_EvictOldestOnly ==
    [][ LET dropped == CachedTexts(cache) \ CachedTexts(cache')
            inserted == CachedTexts(cache') \ CachedTexts(cache)
        IN  /\ Len(cache') <= cache_size
            /\ Cardinality(dropped) <= Cardinality(inserted)
            /\ (e_call'.fn = "generate_embedding" /\ dropped # {}) =>
                  /\ Len(cache) = cache_size
                  /\ dropped = {cache[1].text} ]_vars

(***************************************************************************)
(* CoverageAnalyzer, search_workflow.py lines 84-283.  A ratio is a whole  *)
(* number of 1/1500ths.  A report is the dict a function returns, a list   *)
(* whose order is that of a set is the set, and a call that raises gives   *)
(* Raised(exception).                                                      *)
(***************************************************************************)
RatioOne == 1500

Raised(exception) == [raised |-> exception]

\* line 88
expected_sources == {"semantic_scholar", "arxiv", "pubmed"}

\* set(r.get("source", "unknown") for r in results), lines 92, 221
SourcesOf(results) ==
    {IF results[i].source = Absent THEN "unknown" ELSE results[i].source :
        i \in 1..Len(results)}

\* [r.get("year") for r in results if r.get("year")], lines 107, 202, 263:
\* None and 0 are left out
YearsOf(results) ==
    LET dated == SelectSeq(results,
                           LAMBDA r : r.year_is = "set" /\ r.year # 0)
    IN  [i \in 1..Len(dated) |-> dated[i].year]

MinOf(S) == CHOOSE x \in S : \A y \in S : x <= y
MaxOf(S) == CHOOSE x \in S : \A y \in S : x >= y

\* sorted(S) of a set of numbers
RECURSIVE Ascending(_)
Ascending(S) ==
    IF S = {} THEN <<>> ELSE <<MinOf(S)>> \o Ascending(S \ {MinOf(S)})

\* _assess_coverage_quality, lines 192-198
assess_coverage_quality(sources, result_count) ==
    LET source_score ==
            (Cardinality(sources \cap expected_sources) * RatioOne)
               \div Cardinality(expected_sources)
        quantity_score == Min((result_count * RatioOne) \div 50, RatioOne)
        diversity_score ==
            (Cardinality(sources) * RatioOne)
               \div Max(Cardinality(expected_sources), 1)
    IN  (source_score * 4 + quantity_score * 3 + diversity_score * 3) \div 10

\* lines 90-103
analyze_coverage(results, q) ==
    LET sources == SourcesOf(results)
    IN  [total_papers |-> Len(results),
         sources_covered |-> sources,
         source_coverage |->
            (Cardinality(sources \cap expected_sources) * RatioOne)
               \div Cardinality(expected_sources),
         missing_sources |-> expected_sources \ sources,
         query |-> q,
         coverage_quality |-> assess_coverage_quality(sources, Len(results))]

\* lines 105-122; sorted(years)[len(years) // 2] is the year with at most
\* len // 2 years below it and more than len // 2 years not above it
analyze_temporal_coverage(results) ==
    LET years == YearsOf(results)
        ys == Range(years)
        at(y) == Cardinality({i \in 1..Len(years) : years[i] = y})
        below(y) == Cardinality({i \in 1..Len(years) : years[i] < y})
    IN  IF years = <<>>
        THEN [error |-> "No year information available"]
        ELSE [year_range |-> [start |-> MinOf(ys), end |-> MaxOf(ys)],
              year_distribution |-> [y \in ys |-> at(y)],
              median_year |->
                 CHOOSE y \in ys : /\ below(y) <= Len(years) \div 2
                                   /\ Len(years) \div 2 < below(y) + at(y),
              recent_papers |->
                 Cardinality({i \in 1..Len(years) :
                                 years[i] >= CurrentYear - 2}),
              temporal_span |-> MaxOf(ys) - MinOf(ys)]

\* _identify_temporal_gaps, lines 200-217; a message is the tuple of its
\* text and the years it names
identify_temporal_gaps(results) ==
    LET years == Ascending(Range(YearsOf(results)))
        pairs == [i \in 1..(Len(years) - 1) |->
                     <<"Gap between", years[i], years[i + 1]>>]
        gaps == SelectSeq(pairs, LAMBDA g : g[3] - g[2] > 3)
    IN  IF Len(years) < 2
        THEN << <<"Insufficient temporal data">> >>
        ELSE gaps \o
             (IF \E i \in 1..Len(years) : years[i] >= CurrentYear - 1
              THEN <<>>
              ELSE << <<"No very recent papers (current year)">> >>)

\* len(w) of the words of the titles above
WordLength(w) ==
    CASE w = "ml" -> 2
      [] w = "deep" -> 4
      [] w = "health" -> 6
      [] w = "imaging" -> 7

\* lines 124-150.  No record of the model has keywords, so the words of
\* the title are taken (lines 131-134), and result["title"].lower() raises
\* on None.  No list of the model has more than 10 words, so most_common(10)
\* keeps all of them, nor more than 5 missing topics.
identify_research_gaps(results, domain) ==
    LET titled == SelectSeq(results, LAMBDA r : r.title # Absent)
        words(r) == SelectSeq(Split(Lower(r.title)),
                              LAMBDA w : WordLength(w) > 3)
        count(k) ==
            Cardinality(UNION {{<<i, j>> : j \in {n \in 1..Len(words(titled[i])) :
                                                    words(titled[i])[n] = k}} :
                               i \in 1..Len(titled)})
        common_keywords ==
            UNION {Range(words(titled[i])) : i \in 1..Len(titled)}
        domain_terms == Range(Split(Lower(domain)))
    IN  IF \E i \in 1..Len(titled) : titled[i].title = Null
        THEN Raised("AttributeError")
        ELSE [missing_topics |-> domain_terms \ common_keywords,
              underrepresented_areas |->
                 {k \in common_keywords : count(k) = 1},
              temporal_gaps |-> identify_temporal_gaps(results),
              source_gaps |-> expected_sources \ SourcesOf(results),
              research_density |->
                 IF common_keywords # {}
                 THEN (Len(results) * RatioOne)
                         \div Cardinality(common_keywords)
                 ELSE 0]

\* _get_bias_recommendations, lines 238-250: count / total raises when the
\* total is 0 and there is a source, which no Counter has
get_bias_recommendations(source_counts) ==
    LET total == Len(source_counts)
        share(s) == Cardinality({i \in 1..total : source_counts[i] = s})
    IN  {<<"Reduce reliance on", s>> :
            s \in {x \in Range(source_counts) : share(x) * 100 > 70 * total}}
        \cup
        {<<"Increase coverage from", s>> :
            s \in {x \in Range(source_counts) : share(x) * 100 < 10 * total}}

\* detect_source_bias from line 160 on: max() of no counts raises
\* ValueError.  source_counts is the Counter as the list of the sources it
\* counted, and max(source_counts, key=source_counts.get) is the first
\* source counted among those counted most often.
BiasAnalysis(results) ==
    LET source_counts ==
            [i \in 1..Len(results) |->
                IF results[i].source = Absent THEN "unknown"
                ELSE results[i].source]
        total_papers == Len(results)
        share(s) == Cardinality({i \in 1..total_papers :
                                    source_counts[i] = s})
        max_count == MaxOf({share(s) : s \in Range(source_counts)})
        first == CHOOSE i \in 1..total_papers :
                    /\ share(source_counts[i]) = max_count
                    /\ \A j \in 1..(i - 1) :
                          share(source_counts[j]) < max_count
    IN  IF Range(source_counts) = {}
        THEN Raised("ValueError")
        ELSE [is_biased |-> max_count * 10 > 7 * total_papers,
              dominant_source |-> source_counts[first],
              bias_score |-> (max_count * RatioOne) \div total_papers,
              source_distribution |->
                 [s \in Range(source_counts) |-> share(s)],
              \* _calculate_entropy, lines 224-236: a float has no
              \* bit_length, so every term is 0
              entropy |-> 0,
              recommendations |-> get_bias_recommendations(source_counts)]

\* detect_source_bias without the return of lines 157-158
detect_source_bias_unguarded(results) == BiasAnalysis(results)

\* lines 152-174
detect_source_bias(results) ==
    IF Len(results) = 0
    THEN [error |-> "No results to analyze"]
    ELSE BiasAnalysis(results)

\* _suggest_query_refinements, lines 252-259
suggest_query_refinements(results) ==
    IF Len(results) < 5
    THEN <<"Use broader search terms", "Remove specific constraints">>
    ELSE IF Len(results) > 100
    THEN <<"Add more specific terms", "Use AND operators",
           "Add temporal constraints">>
    ELSE <<"Consider related terminology",
           "Try different field combinations">>

\* _suggest_temporal_expansions, lines 261-283
suggest_temporal_expansions(results) ==
    LET years == Range(YearsOf(results))
    IN  IF years = {}
        THEN <<"Add year constraints to focus results">>
        ELSE (IF MaxOf(years) < CurrentYear - 2
              THEN <<"Search for more recent papers">> ELSE <<>>)
             \o (IF MinOf(years) > CurrentYear - 10
                 THEN <<"Consider expanding to include older foundational work">>
                 ELSE <<>>)
             \o (IF MaxOf(years) - MinOf(years) < 3
                 THEN <<"Expand temporal range for broader coverage">>
                 ELSE <<>>)

\* lines 176-190; bias.get("recommendations", []) of a report that has
\* none, and a raise of detect_source_bias goes through
generate_recommendations(results) ==
    LET coverage == analyze_coverage(results, "")
        bias == detect_source_bias(results)
    IN  IF "raised" \in DOMAIN bias
        THEN bias
        ELSE [additional_sources |-> coverage.missing_sources,
              query_refinements |-> suggest_query_refinements(results),
              temporal_expansions |-> suggest_temporal_expansions(results),
              bias_mitigation |->
                 IF "recommendations" \in DOMAIN bias
                 THEN bias.recommendations ELSE {},
              sample_size |-> Len(results),
              coverage_score |-> coverage.coverage_quality]

\* a record no client tagged with a source
U1 == [S2 EXCEPT !.uid = "u1", !.source = Absent, !.year = 2026]

CoveragePool == {S1, S3, A1, P1, U1}

CoverageFunctions ==
    {"analyze_coverage", "analyze_temporal_coverage",
     "identify_research_gaps", "detect_source_bias",
     "generate_recommendations"}

\* One call of a function of the analyzer on a list of records.
Analyze ==
    /\ last_call = NoCall
    /\ \E f \in CoverageFunctions,
          results \in ListsOf(CoveragePool, MaxRecords), q \in Queries :
         last_call' =
            [fn |-> f, results |-> results, query |-> q,
             returned |->
                CASE f = "analyze_coverage" -> analyze_coverage(results, q)
                  [] f = "analyze_temporal_coverage" ->
                        analyze_temporal_coverage(results)
                  [] f = "identify_research_gaps" ->
                        identify_research_gaps(results, q)
                  [] f = "detect_source_bias" -> detect_source_bias(results)
                  [] f = "generate_recommendations" ->
                        generate_recommendations(results)]
    /\ UNCHANGED ranker
    /\ UNCHANGED <<rlVars, retryVars, wfVars, dedupVars, embVars, restVars>>

InitCoverage ==
    /\ NoRanking
    /\ NoLimiterUse
    /\ NoRetry
    /\ NoRun
    /\ NoDedup
    /\ NoEmbedding
    /\ NoRest

NextCoverage ==
    \/ Analyze

SpecCoverage == InitCoverage /\ [][NextCoverage]_vars

\* the numbers a report counts or measures with
Counts(report) ==
    {report[k] : k \in DOMAIN report \cap
                         {"total_papers", "source_coverage",
                          "coverage_quality", "research_density",
                          "sample_size", "coverage_score"}}

(***************************************************************************)
(* C24.  Analysing no records never raises: each of the five functions of  *)
(* the analyzer returns, for the empty list, a report that either holds an *)
(* error marker or counts nothing: every count and every ratio in it is 0, *)
(* and the gaps it names are the marker for insufficient data and the      *)
(* three expected sources.                                                 *)
(***************************************************************************)
C24_EmptyInputIsReported ==
    (last_call.fn \in CoverageFunctions /\ last_call.results = <<>>) =>
       LET report == last_call.returned
       IN  /\ "raised" \notin DOMAIN report
           /\ \/ "error" \in DOMAIN report
              \/ /\ Counts(report) = {0}
                 /\ "temporal_gaps" \in DOMAIN report =>
                       report.temporal_gaps
                          = << <<"Insufficient temporal data">> >>
                 /\ "missing_sources" \in DOMAIN report =>
                       report.missing_sources = expected_sources
                 /\ "bias_mitigation" \in DOMAIN report =>
                       report.bias_mitigation = {}

\* generate_recommendations was called on no records and reported a sample
\* of size 0
C24_Witness ==
    /\ last_call.fn = "generate_recommendations"
    /\ last_call.results = <<>>
    /\ last_call.returned.sample_size = 0

(***************************************************************************)
(* APIIntegrationManager.search and search_all, api_integrations.py lines  *)
(* 419-470, with the tagging of the clients.  What a server answers is a   *)
(* list of items: the papers above with the source the item came with,     *)
(* none for an Atom entry or a PubmedArticle, none or any for a JSON       *)
(* object of Semantic Scholar.                                             *)
(***************************************************************************)
Answers(s) ==
    {[i \in 1..Len(papers) |-> [papers[i] EXCEPT !.source = given]] :
        papers \in Payloads(s),
        given \in IF s = "semantic_scholar" THEN {Absent, "crossref"}
                  ELSE {Absent}}

\* the tag every client writes on every record
TagOfArxiv(s) == "arxiv"

\* the tag a client writes on its records: lines 103, 204, 373
TagOf(s) == s

\* the client's search on a response with status 200: paper["source"] = ...
\* on each JSON object (lines 102-103) or on each dict the parser builds
\* (lines 168-206, 326-375)
ClientSearch(s, items) ==
    [i \in 1..Len(items) |-> [items[i] EXCEPT !.source = TagOf(s)]]

\* lines 419-444: an API that is not available gives [], and so does a
\* name that is none of the three, by the ValueError caught at line 442
search(api_name, items) ==
    IF ~is_available(api_name) \/ api_name \notin Sources THEN <<>>
    ELSE LET results == ClientSearch(api_name, items)
         IN  [i \in 1..Len(results) |->
                 IF results[i].source = Absent
                 THEN [results[i] EXCEPT !.source = api_name]
                 ELSE results[i]]

\* One call of search.
Search ==
    /\ last_call = NoCall
    /\ \E api_name \in Sources \cup {"scopus"} :
       \E items \in IF api_name \in Sources THEN Answers(api_name)
                    ELSE {<<>>} :
          last_call' = [fn |-> "search", api_name |-> api_name,
                        items |-> (api_name :> items),
                        returned |-> search(api_name, items)]
    /\ UNCHANGED ranker
    /\ UNCHANGED <<rlVars, retryVars, wfVars, dedupVars, embVars, restVars>>

\* One call of search_all, lines 446-470: the tasks it queues are those of
\* the available APIs, and it joins their lists in the order queued.
SearchAll ==
    /\ last_call = NoCall
    /\ \E items \in [Sources -> UNION {Answers(s) : s \in Sources}] :
          /\ \A s \in Sources : items[s] \in Answers(s)
          /\ last_call' =
                [fn |-> "search_all", api_name |-> "",
                 items |-> items,
                 returned |->
                    Combine([s \in Sources |-> search(s, items[s])],
                            SourceOrder)]
    /\ UNCHANGED ranker
    /\ UNCHANGED <<rlVars, retryVars, wfVars, dedupVars, embVars, restVars>>

(***************************************************************************)
(* SearchWorkflowOrchestrator.coordinate_parallel_search, lines 535-567.   *)
(***************************************************************************)
\* _get_source_name, lines 660-663; index counts from 0
get_source_name(index) ==
    IF index < Len(SourceOrder) THEN SourceOrder[index + 1] ELSE "unknown"

\* the searches queued, lines 545-552: those of the available databases
Queued == SelectSeq(SourceOrder, is_available)

\* lines 558-567: the papers of the i-th list gathered get the i-th name
RECURSIVE Tagged(_, _)
Tagged(lists, i) ==
    IF i > Len(lists) THEN <<>>
    ELSE [j \in 1..Len(lists[i]) |->
             [lists[i][j] EXCEPT !.source = get_source_name(i - 1)]]
         \o Tagged(lists, i + 1)

\* One call of coordinate_parallel_search: each search queued is
\* api_manager.search of its database (search_agent.py lines 184-194).
CoordinateParallelSearch ==
    /\ last_call = NoCall
    /\ \E items \in [Sources -> UNION {Answers(s) : s \in Sources}] :
          /\ \A s \in Sources : items[s] \in Answers(s)
          /\ last_call' =
                [fn |-> "coordinate_parallel_search", api_name |-> "",
                 items |-> items,
                 returned |->
                    Tagged([i \in 1..Len(Queued) |->
                               search(Queued[i], items[Queued[i]])], 1)]
    /\ UNCHANGED ranker
    /\ UNCHANGED <<rlVars, retryVars, wfVars, dedupVars, embVars, restVars>>

\* APIIntegrationManager.__init__, lines 388-406, in a SearchAgent with its
\* orchestrator
InitManager ==
    /\ api_keys \in SUBSET {"semantic_scholar", "pubmed"}
    /\ biopython \in BOOLEAN
    /\ "pubmed" \notin api_keys => biopython
    /\ query = ""
    /\ max_results = 1
    /\ deadline = 1
    /\ NewOrchestrator
    /\ NoLimiterUse
    /\ NoRetry
    /\ NoLib
    /\ NoRest

NextManager ==
    \/ Search
    \/ SearchAll
    \/ CoordinateParallelSearch

SpecManager == InitManager /\ [][NextManager]_vars

\* the APIs whose client was given x among the items it turned into records
ProducersOf(x) ==
    {s \in DOMAIN last_call.items :
        \E i \in 1..Len(last_call.items[s]) :
           last_call.items[s][i].uid = x.uid}

(***************************************************************************)
(* C25.  Every record that search or search_all returns carries a source,  *)
(* and the source names the API whose client produced the record: the API  *)
(* asked for by search, and for search_all an available API whose client   *)
(* got the item of the record in its response; this for every set of       *)
(* available APIs.                                                         *)
(***************************************************************************)
C25_SourceTagNamesTheClient ==
    last_call.fn \in {"search", "search_all"} =>
       \A i \in 1..Len(last_call.returned) :
          LET x == last_call.returned[i]
          IN  /\ x.source \in Sources
              /\ is_available(x.source)
              /\ x.source \in ProducersOf(x)
              /\ last_call.fn = "search" => x.source = last_call.api_name

\* search_all returned records of two clients, one of them made of an item
\* that came with a source of its own
C25_Witness ==
    /\ last_call.fn = "search_all"
    /\ \E i, j \in 1..Len(last_call.returned) :
          /\ last_call.returned[i].source = "semantic_scholar"
          /\ last_call.returned[j].source = "arxiv"
    /\ \E i \in 1..Len(last_call.items["semantic_scholar"]) :
          last_call.items["semantic_scholar"][i].source = "crossref"

(***************************************************************************)
(* C26.  Every paper that coordinate_parallel_search returns is tagged     *)
(* with the name of the database that returned it, whichever of            *)
(* semantic_scholar and pubmed are available.  The code names the i-th     *)
(* list gathered after the i-th of the three databases, so with            *)
(* semantic_scholar unavailable the papers of arXiv are tagged             *)
(* semantic_scholar and those of PubMed arxiv.                             *)
(***************************************************************************)
C26_TaggedWithItsDatabase ==
    last_call.fn = "coordinate_parallel_search" =>
       \A i \in 1..Len(last_call.returned) :
          last_call.returned[i].source \in ProducersOf(last_call.returned[i])

(***************************************************************************)
(* A WorkflowProgressTracker called step by step, search_workflow.py lines *)
(* 405-485: the orchestrator's tracker, with nothing else running.         *)
(***************************************************************************)
\* the names of steps: two that workflows declare and one that none does
StepNames == {"search", "rank", "filter"}

\* the lists of steps a workflow is initialized with
StepLists == {<<>>, <<"search">>, <<"search", "rank">>}

\* get_completion_status, lines 473-485: self.total_steps raises while the
\* attribute is not there; progress_percentage is a ratio in 1/1500ths
get_completion_status(tracker) ==
    IF ~tracker.has_total_steps THEN Raised("AttributeError")
    ELSE [progress_percentage |->
             IF tracker.total_steps > 0
             THEN (Len(tracker.completed_steps) * RatioOne)
                     \div tracker.total_steps
             ELSE 0,
          is_complete |-> is_complete(tracker),
          current_step |-> tracker.current_step,
          completed_steps |-> Len(tracker.completed_steps),
          total_steps |-> tracker.total_steps,
          active_steps |-> tracker.active_steps,
          error_count |-> Len(tracker.errors)]

Reset ==
    /\ progress_tracker' = reset(progress_tracker)
    /\ UNCHANGED <<wfConfig, clock, w_pc, s_pc, s_result, w_result,
                   w_raised, s_log, s_failed, all_papers>>
    /\ UNCHANGED <<rlVars, retryVars, libVars, restVars>>

InitializeWorkflow ==
    /\ \E steps \in StepLists :
          progress_tracker' = initialize_workflow(progress_tracker, steps)
    /\ UNCHANGED <<wfConfig, clock, w_pc, s_pc, s_result, w_result,
                   w_raised, s_log, s_failed, all_papers>>
    /\ UNCHANGED <<rlVars, retryVars, libVars, restVars>>

StartStep ==
    /\ \E step_name \in StepNames :
          progress_tracker' = start_step(progress_tracker, step_name, clock)
    /\ UNCHANGED <<wfConfig, clock, w_pc, s_pc, s_result, w_result,
                   w_raised, s_log, s_failed, all_papers>>
    /\ UNCHANGED <<rlVars, retryVars, libVars, restVars>>

CompleteStep ==
    /\ Len(progress_tracker.completed_steps) < MaxCompleted
    /\ \E step_name \in StepNames, result_count \in {0, 1} :
          progress_tracker' =
             complete_step(progress_tracker, step_name, result_count)
    /\ UNCHANGED <<wfConfig, clock, w_pc, s_pc, s_result, w_result,
                   w_raised, s_log, s_failed, all_papers>>
    /\ UNCHANGED <<rlVars, retryVars, libVars, restVars>>

\* WorkflowProgressTracker(), lines 408-409
InitTracker ==
    /\ NoRun
    /\ NoLimiterUse
    /\ NoRetry
    /\ NoLib
    /\ NoRest

NextTracker ==
    \/ Reset
    \/ InitializeWorkflow
    \/ StartStep
    \/ CompleteStep

SpecTracker == InitTracker /\ [][NextTracker]_vars

\* what reset() assigns is as reset() assigned it
Fresh(tracker) ==
    /\ tracker.steps = <<>>
    /\ tracker.current_step = 0
    /\ tracker.completed_steps = <<>>
    /\ tracker.active_steps = {}
    /\ tracker.errors = <<>>
    /\ DOMAIN tracker.step_start_times = {}
    /\ DOMAIN tracker.step_results = {}
    /\ tracker.total_results = 0

(***************************************************************************)
(* C27.  A tracker just constructed or just reset is in the initial state: *)
(* no steps, current_step 0, nothing completed or active, no errors,       *)
(* total_results 0, and total_steps 0, so that get_completion_status is    *)
(* defined.  __init__ only calls reset(), which never assigns total_steps: *)
(* a new tracker has no such attribute and a reset one keeps the number    *)
(* of steps of the workflow before.                                        *)
(***************************************************************************)
C27_FreshTrackerIsInitial ==
    Fresh(progress_tracker) =>
       /\ progress_tracker.has_total_steps
       /\ progress_tracker.total_steps = 0
       /\ "raised" \notin DOMAIN get_completion_status(progress_tracker)

\* the declared steps that completed
DeclaredCompleted(tracker) ==
    Range(tracker.steps) \cap Range(tracker.completed_steps)

(***************************************************************************)
(* C29.  After any calls of initialize_workflow, start_step and            *)
(* complete_step, get_completion_status reports as progress_percentage the *)
(* fraction of the declared steps that completed, a number from 0 to 1,    *)
(* and is_complete exactly when every declared step completed.  The code   *)
(* counts the entries of completed_steps, to which complete_step appends   *)
(* whatever it is given, declared or not, completed before or not.         *)
(***************************************************************************)
C29_ProgressIsFractionCompleted ==
    progress_tracker.has_total_steps =>
       LET status == get_completion_status(progress_tracker)
           declared == Cardinality(Range(progress_tracker.steps))
       IN  /\ status.progress_percentage <= RatioOne
           /\ status.progress_percentage =
                 (IF declared > 0
                  THEN (Cardinality(DeclaredCompleted(progress_tracker))
                           * RatioOne) \div declared
                  ELSE 0)
           /\ status.is_complete <=>
                 (Range(progress_tracker.steps)
                     \subseteq Range(progress_tracker.completed_steps))

\* a stage of the basic workflow raised on the list search_all returned
StageRaised == BasicOutcome(all_papers, query, max_results).raised

(***************************************************************************)
(* C30.  execute_search_workflow never raises.  When one of its stages     *)
(* raises, it returns a list (the empty one), one error and no more is     *)
(* appended to the tracker's errors, and the run is not reported complete; *)
(* when none raises, no error is appended.  The searches of the sources    *)
(* never raise into the workflow (search and search_all catch what they    *)
(* raise) and deduplicate_results raises on no record of the model; the    *)
(* stage that raises is the scoring of a record whose year or              *)
(* citationCount is None.                                                  *)
(***************************************************************************)
C30_WorkflowNeverRaises ==
    w_pc = "done" =>
       /\ ~w_raised
       /\ StageRaised =>
             /\ w_result = <<>>
             /\ Len(progress_tracker.errors) = 1
             /\ ~get_completion_status(progress_tracker).is_complete
       /\ ~StageRaised => progress_tracker.errors = <<>>

\* a run ended after score_relevance raised on a record whose year is None
C30_Witness ==
    /\ w_pc = "done"
    /\ StageRaised
    /\ \E i \in 1..Len(all_papers) : all_papers[i].year_is = "null"
    /\ Len(progress_tracker.errors) = 1

(***************************************************************************)
(* SearchWorkflowOrchestrator.execute_enhanced_search_workflow and         *)
(* execute_search_workflow as their callers see them, search_workflow.py   *)
(* lines 498-622.  A call runs from one await to the next in one step.     *)
(* What it awaits never raises: search_all_databases (api_integrations.py  *)
(* lines 442-444, 460), vector_search and add_papers_to_vector_store       *)
(* (search_agent.py lines 206-215, 223-226) catch what they raise; what    *)
(* they return is drawn from the lists below.                              *)
(***************************************************************************)
\* a Semantic Scholar paper whose citationCount is null
S4 == [S2 EXCEPT !.uid = "s4", !.cit_is = "null"]

\* the lists search_all_databases returns
ApiAnswers == {<<>>, <<S1>>, <<S1, A1>>, <<S3>>, <<S4>>}

\* the lists vector_search returns
VectorAnswers == {<<>>, <<A1>>}

WorkflowNames ==
    {"execute_search_workflow", "execute_enhanced_search_workflow"}

EnhancedSteps == <<"vector_search", "api_search", "aggregation", "ranking",
                   "coverage_analysis">>

\* lines 575-582: up to the await of vector_search
enhanced_begin(tl, now) ==
    Started(Begun(tl, EnhancedSteps), "vector_search", now)

\* lines 583-587: up to the await of search_all_databases
enhanced_after_vector(tl, vector_results, now) ==
    Started(Completed(tl, "vector_search", Len(vector_results)),
            "api_search", now)

\* an api_search step that is never completed
enhanced_after_api_skipped(tl, api_results) == tl

\* line 588
enhanced_after_api(tl, api_results) ==
    Completed(tl, "api_search", Len(api_results))

\* What lines 595-596, 601-602, 607 and 611-612 compute: rank_results
\* raises on a None citationCount, and every record returned gets the
\* coverage report.
EnhancedOutcome(vector_results, api_results, q, n) ==
    LET unique_results == deduplicate_results(vector_results \o api_results)
        ranking_raises ==
            \E i \in 1..Len(unique_results) :
               CombinedRaises(unique_results[i])
        ranked_results == rank_results(unique_results, q)
        final_results ==
            SubSeq(ranked_results, 1, Min(n, Len(ranked_results)))
        coverage == analyze_coverage(final_results, q)
    IN  [unique_results |-> unique_results,
         raised |-> ranking_raises,
         final_results |->
            IF ranking_raises THEN <<>>
            ELSE [i \in 1..Len(final_results) |->
                     [coverage_analysis |-> coverage] @@ final_results[i]]]

\* lines 593-620: from the aggregation to the return, or, when the ranking
\* raised, to the await of search_all_databases in execute_search_workflow,
\* which the handler calls (line 620)
enhanced_finish(tl, out, now) ==
    LET t1 == Completed(Started(tl, "aggregation", now),
                        "aggregation", Len(out.unique_results))
        t2 == Started(t1, "ranking", now)
        t3 == Completed(t2, "ranking", Len(out.final_results))
        t4 == Completed(Started(t3, "coverage_analysis", now),
                        "coverage_analysis", 1)
    IN  IF out.raised
        THEN basic_begin(Errored(t2, "enhanced_workflow", "TypeError", now),
                         now)
        ELSE t4

\* the tracker as caller r alone would have made it, with r's calls
Own(r) == [tracker |-> run[r].own, log |-> run[r].log]

\* the orchestrator's tracker
Shared == Tracked(progress_tracker)

\* The call of caller r goes on to its next await, or returns, having made
\* calls on the orchestrator's tracker: mine is what they make of Own(r),
\* shared what they make of Shared.
Proceed(r, mine, shared, to, locals) ==
    /\ progress_tracker' = shared.tracker
    /\ run' = [run EXCEPT ![r] =
          [pc |-> to, own |-> mine.tracker, log |-> mine.log,
           seen |-> IF to = "done" THEN shared.tracker ELSE @.seen]
          @@ locals @@ @]
    /\ UNCHANGED <<wfConfig, clock, w_pc, s_pc, s_result, w_result,
                   w_raised, s_log, s_failed, all_papers>>
    /\ UNCHANGED <<rlVars, retryVars, libVars, vector_engine, metrics,
                   sessVars>>

\* Caller r calls a workflow: lines 571-582, or 500-507 for the basic
\* workflow and for the enhanced one without a vector engine.
Call(r) ==
    /\ run[r].pc = "idle"
    /\ \E fn \in WorkflowNames :
          IF fn = "execute_enhanced_search_workflow" /\ vector_engine
          THEN Proceed(r, enhanced_begin(Own(r), clock),
                       enhanced_begin(Shared, clock),
                       "vector_search", [fn |-> fn])
          ELSE Proceed(r, basic_begin(Own(r), clock),
                       basic_begin(Shared, clock),
                       "search_all_databases", [fn |-> fn])

\* vector_search returns to the enhanced workflow, lines 582-587.
VectorSearchReturns(r) ==
    /\ run[r].pc = "vector_search"
    /\ \E vector_results \in VectorAnswers :
          Proceed(r, enhanced_after_vector(Own(r), vector_results, clock),
                  enhanced_after_vector(Shared, vector_results, clock),
                  "api_search", [vector_results |-> vector_results])

\* The enhanced workflow from line 593 on, with what it has gathered; mine
\* and shared are the trackers with api_search completed.
EnhancedEnds(r, mine, shared, api_results) ==
    LET out == EnhancedOutcome(run[r].vector_results, api_results, query,
                               max_results)
    IN  Proceed(r, enhanced_finish(mine, out, clock),
                enhanced_finish(shared, out, clock),
                IF out.raised THEN "search_all_databases" ELSE "done",
                [api_results |-> api_results, result |-> out.final_results])

\* search_all_databases returns to the enhanced workflow, lines 587-591:
\* with papers it awaits add_papers_to_vector_store, with none it goes on.
ApiSearchReturns(r) ==
    /\ run[r].pc = "api_search"
    /\ \E api_results \in ApiAnswers :
          IF api_results # <<>>
          THEN Proceed(r, enhanced_after_api(Own(r), api_results),
                       enhanced_after_api(Shared, api_results),
                       "add_papers_to_vector_store",
                       [api_results |-> api_results])
          ELSE EnhancedEnds(r, enhanced_after_api(Own(r), api_results),
                            enhanced_after_api(Shared, api_results),
                            api_results)

\* add_papers_to_vector_store returns, line 591.
AddPapersReturns(r) ==
    /\ run[r].pc = "add_papers_to_vector_store"
    /\ EnhancedEnds(r, Own(r), Shared, run[r].api_results)

\* search_all_databases returns to the basic workflow, lines 507-533.
SearchAllReturns(r) ==
    /\ run[r].pc = "search_all_databases"
    /\ \E results \in ApiAnswers :
          LET out == BasicOutcome(results, query, max_results)
          IN  Proceed(r, basic_finish(Own(r), results, out, clock),
                      basic_finish(Shared, results, out, clock),
                      "done",
                      [api_results |-> results,
                       result |-> out.final_results])

\* SearchAgent.__init__, search_agent.py lines 43-58: the vector engine is
\* there when its dependencies are; nobody has called yet.
InitRuns ==
    /\ api_keys = {}
    /\ biopython = TRUE
    /\ query \in Queries
    /\ max_results \in 1..MaxResults
    /\ deadline = 1
    /\ NewOrchestrator
    /\ vector_engine \in BOOLEAN
    /\ run = [r \in Runs |-> IdleRun]
    /\ metrics = NoMetrics
    /\ NewClients
    /\ NoLimiterUse
    /\ NoRetry
    /\ NoLib

\* what a call does once made
Continue(r) ==
    \/ VectorSearchReturns(r)
    \/ ApiSearchReturns(r)
    \/ AddPapersReturns(r)
    \/ SearchAllReturns(r)

\* one caller, one call
NextRun ==
    \/ Call(1)
    \/ Continue(1)

SpecRun == InitRuns /\ [][NextRun]_vars

\* two callers, whose calls interleave at the awaits
NextRuns ==
    \/ \E r \in Runs : Call(r)
    \/ \E r \in Runs : Continue(r)

SpecRuns == InitRuns /\ [][NextRuns]_vars

(***************************************************************************)
(* C22.  Run state is not shared across concurrent queries: the progress   *)
(* state a call observes, while it runs and when it returns, is the one    *)
(* its own steps made, whatever another call on the same orchestrator does *)
(* in between.  Both calls use the orchestrator's one tracker, which each  *)
(* resets at its start.                                                    *)
(***************************************************************************)
C22_RunStateNotShared ==
    \A r \in Runs :
       /\ run[r].pc \notin {"idle", "done"} =>
             progress_tracker = run[r].own
       /\ run[r].pc = "done" => run[r].seen = run[r].own

\* the calls of start_step and complete_step that caller r made
StepCalls(r) ==
    SelectSeq(run[r].log,
              LAMBDA c : c.call \in {"start_step", "complete_step"})

\* each step of the list started and then completed, one step after the
\* other
OneByOne(steps) ==
    [i \in 1..(2 * Len(steps)) |->
        [call |-> IF i % 2 = 1 THEN "start_step" ELSE "complete_step",
         step |-> steps[(i + 1) \div 2]]]

NoStageRaised(r) ==
    \A i \in 1..Len(run[r].log) : run[r].log[i].call # "log_error"

(***************************************************************************)
(* C28.  In a call of either workflow in which no stage raises, the steps  *)
(* declared are started and completed one by one in the order declared: at *)
(* every moment the calls made so far are a beginning of start, complete,  *)
(* start, complete, ... over the declared steps, so at most one step is    *)
(* active; and at the return all of them are completed: is_complete holds, *)
(* progress_percentage is 1 and no step is active.                         *)
(***************************************************************************)
C28_StepsInDeclaredOrder ==
    (run[1].pc # "idle" /\ NoStageRaised(1)) =>
       LET made == StepCalls(1)
           plan == OneByOne(progress_tracker.steps)
       IN  /\ Len(made) <= Len(plan)
           /\ made = SubSeq(plan, 1, Len(made))
           /\ Cardinality(progress_tracker.active_steps) <= 1
           /\ run[1].pc = "done" =>
                 LET status == get_completion_status(run[1].seen)
                 IN  /\ made = plan
                     /\ status.is_complete
                     /\ status.progress_percentage = RatioOne
                     /\ status.active_steps = {}
                     /\ run[1].seen.completed_steps = run[1].seen.steps

\* an enhanced call with a vector engine returned papers and no stage
\* raised
C28_Witness ==
    /\ run[1].pc = "done"
    /\ run[1].fn = "execute_enhanced_search_workflow"
    /\ vector_engine
    /\ NoStageRaised(1)
    /\ run[1].seen.steps = EnhancedSteps
    /\ run[1].result # <<>>

(***************************************************************************)
(* C31.  A record whose year or citationCount is missing or None breaks    *)
(* no scoring: when the list search_all returned holds such a record,      *)
(* neither score_relevance nor rank_results raises on it, and the workflow *)
(* returns records of that list.                                           *)
(***************************************************************************)
C31_AbsentFieldNeverBreaksScoring ==
    (/\ w_pc = "done"
     /\ \E i \in 1..Len(all_papers) :
           \/ all_papers[i].year_is # "set"
           \/ all_papers[i].cit_is # "set")
    => /\ \A i \in 1..Len(all_papers) :
             /\ ~RelevanceRaises(all_papers[i])
             /\ ~CombinedRaises(all_papers[i])
       /\ w_result # <<>>
       /\ Uids(w_result) \subseteq Uids(all_papers)

\* EmbeddingGenerator.__init__ when Sentence Transformers is missing or the
\* model fails to load, lines 44-54: self.model is None.
InitDegraded ==
    /\ cache_size \in 1..MaxCacheSize
    /\ model_loaded = FALSE
    /\ NewGenerator
    /\ NoLimiterUse
    /\ NoRetry
    /\ NoRun
    /\ NoDedup
    /\ NoRanking
    /\ NoRest

SpecDegraded == InitDegraded /\ [][NextEmbedding]_vars

(***************************************************************************)
(* C32.  Without a model, embeddings are deterministic: generate_embedding *)
(* returns the same vector every time it is called with the same text,     *)
(* whatever was embedded and evicted between the calls.                    *)
(***************************************************************************)
C32_DegradedIsDeterministic ==
    \A x, y \in e_seen : x.text = y.text => x.returned = y.returned

\* the steps for which caller r called log_error
ErrorsLogged(r) ==
    {run[r].log[i].step :
        i \in {j \in 1..Len(run[r].log) : run[r].log[j].call = "log_error"}}

\* get_workflow_status()["errors"], line 657, of a tracker: the steps named
ErrorsVisible(tracker) ==
    {tracker.errors[i].step : i \in 1..Len(tracker.errors)}

(***************************************************************************)
(* C33.  An error a workflow logged is still visible when the call         *)
(* returns: every step for which the call logged an error, the             *)
(* "enhanced_workflow" of a failed enhanced workflow that fell back to the *)
(* basic one included, is in get_workflow_status()["errors"] at the        *)
(* return.                                                                 *)
(***************************************************************************)
C33_LoggedErrorStaysVisible ==
    run[1].pc = "done" =>
       ErrorsLogged(1) \subseteq ErrorsVisible(run[1].seen)

(***************************************************************************)
(* C34.  The limiter never throttles below its budget: a call of acquire() *)
(* made when fewer than max_calls calls have returned within the preceding *)
(* time_window returns without sleeping; and the call record holds one     *)
(* timestamp per admitted call: its entries younger than time_window are   *)
(* as many as the returns younger than time_window.                        *)
(***************************************************************************)
C34_NeverThrottlesBelowBudget ==
    [][ /\ \A t \in Tasks :
              (pc[t] = "idle" /\ pc'[t] = "sleeping") =>
                 Len(returned) >= max_calls
        /\ Len(Younger(calls', time_window)) = Len(returned') ]_vars

\* the record at position i of results is in deduplicate_results(results):
\* the loop appended it in its round i
RetainedAt(results, i) ==
    Len(deduplicate_results(SubSeq(results, 1, i)))
       > Len(deduplicate_results(SubSeq(results, 1, i - 1)))

(***************************************************************************)
(* C35.  deduplicate_results drops a record only as a duplicate of a       *)
(* retained one: every record missing from the output shares a DOI         *)
(* (whatever the case), a non-empty title (lowercased and stripped, as the *)
(* code compares titles) or a non-empty id with a retained record that     *)
(* precedes it in the input.                                               *)
(***************************************************************************)
C35_DroppedOnlyAsDuplicateOfKept ==
    d_pc # "input" =>
       \A i \in 1..Len(d_results) :
          ~RetainedAt(d_results, i) =>
             \E j \in 1..(i - 1) :
                /\ RetainedAt(d_results, j)
                /\ \/ SameDoi(d_results[j], d_results[i])
                   \/ SameNormalizedTitle(d_results[j], d_results[i])
                   \/ SameId(d_results[j], d_results[i])

\* what its year adds to the combined score of a record: the score it got
\* less the score of the same record without a year
RecencyContribution(result, q) ==
    CombinedScore(result, q)
       - CombinedScore([result EXCEPT !.year_is = "absent", !.year = 0], q)

(***************************************************************************)
(* C36.  The recency contribution to the combined score decays linearly    *)
(* over ten years and is never negative: it is 0.2 for a record of the     *)
(* current year, a tenth of that less for every year of age, and 0 for a   *)
(* record older than ten years, so that no record scores below the same    *)
(* record without a year.  Scores are in thousandths.                      *)
(***************************************************************************)
C36_RecencyNeverNegative ==
    last_call.fn = "rank_results" =>
       \A i \in 1..Len(last_call.results) :
          LET result == last_call.results[i]
              age == CurrentYear - result.year
              recency == RecencyContribution(result, last_call.query)
          IN  /\ recency >= 0
              /\ last_call.results_after[i].combined_score
                    = CombinedScore(result, last_call.query)
              /\ (result.year_is = "set" /\ age > 10) => recency = 0
              /\ (result.year_is = "set" /\ age \in 0..10) =>
                    recency = (10 - age) * 20

\* the padding of a result list is drawn from 0..MaxPadding
MaxPadding == 2

\* the sources a record can carry: the expected ones, others, and none
SourceSeq == <<"semantic_scholar", "arxiv", "pubmed", "crossref",
               "openalex", "core", Absent>>

\* a result list with one record of every source of the set, in the order
\* of SourceSeq, and padding more records of the last of them
ResultsOf(sources, padding) ==
    LET chosen == SelectSeq(SourceSeq, LAMBDA s : s \in sources)
    IN  IF chosen = <<>> THEN <<>>
        ELSE [i \in 1..(Len(chosen) + padding) |->
                 [U1 EXCEPT !.source = chosen[Min(i, Len(chosen))]]]

\* analyze_coverage, lines 90-103, called with lists of many sources
AnalyzeCoverage ==
    /\ last_call = NoCall
    /\ \E sources \in SUBSET Range(SourceSeq), padding \in 0..MaxPadding,
          q \in Queries :
         LET results == ResultsOf(sources, padding)
         IN  last_call' =
                [fn |-> "analyze_coverage", results |-> results, query |-> q,
                 returned |-> analyze_coverage(results, q)]
    /\ UNCHANGED ranker
    /\ UNCHANGED <<rlVars, retryVars, wfVars, dedupVars, embVars, restVars>>

NextQuality ==
    \/ AnalyzeCoverage

SpecQuality == InitCoverage /\ [][NextQuality]_vars

(***************************************************************************)
(* C37.  The coverage_quality and the source_coverage analyze_coverage     *)
(* reports are on the 0-1 scale for every result list, lists whose records *)
(* carry sources outside the expected set or no source included.  Ratios   *)
(* are in 1/RatioOne.                                                      *)
(***************************************************************************)
C37_QualityOnUnitScale ==
    last_call.fn = "analyze_coverage" =>
       /\ last_call.returned.coverage_quality >= 0
       /\ last_call.returned.coverage_quality <= RatioOne
       /\ last_call.returned.source_coverage >= 0
       /\ last_call.returned.source_coverage <= RatioOne

(***************************************************************************)
(* WorkflowProgressTracker.get_performance_metrics, search_workflow.py     *)
(* lines 451-471, on a tracker that is used while time passes.             *)
(***************************************************************************)
\* the loop of lines 456-461 from position i on: the sum of the step times
\* of the completed steps that were started, a step counted as often as it
\* was completed
RECURSIVE TotalTime(_, _, _)
TotalTime(tracker, now, i) ==
    IF i > Len(tracker.completed_steps) THEN 0
    ELSE LET step == tracker.completed_steps[i]
         IN  (IF step \in DOMAIN tracker.step_start_times
              THEN now - tracker.step_start_times[step] ELSE 0)
             + TotalTime(tracker, now, i + 1)

\* self.total_steps (line 467) raises while the attribute is not there;
\* average_step_time is in 1/RatioOne
get_performance_metrics(tracker, now) ==
    LET timed == Range(tracker.completed_steps)
                    \cap DOMAIN tracker.step_start_times
        total_time == TotalTime(tracker, now, 1)
    IN  IF ~tracker.has_total_steps THEN Raised("AttributeError")
        ELSE [total_time |-> total_time,
              step_times |->
                 [step \in timed |-> now - tracker.step_start_times[step]],
              steps_completed |-> Len(tracker.completed_steps),
              steps_total |-> tracker.total_steps,
              errors_encountered |-> Len(tracker.errors),
              total_results_processed |-> tracker.total_results,
              average_step_time |->
                 IF tracker.completed_steps # <<>>
                 THEN (total_time * RatioOne)
                         \div Len(tracker.completed_steps)
                 ELSE 0]

GetPerformanceMetrics ==
    /\ metrics' = [called |-> TRUE, tracker |-> progress_tracker,
                   returned |->
                      get_performance_metrics(progress_tracker, clock)]
    /\ UNCHANGED <<wfVars, rlVars, retryVars, libVars, runVars, sessVars>>

\* time.time() advances by one tick
TrackerTick ==
    /\ clock < MaxClock
    /\ clock' = clock + 1
    /\ UNCHANGED <<wfConfig, w_pc, s_pc, s_result, progress_tracker,
                   w_result, w_raised, s_log, s_failed, all_papers>>
    /\ UNCHANGED <<rlVars, retryVars, libVars, restVars>>

\* A workflow runs its steps as the workflows of the orchestrator and
\* test_performance_metrics do: it starts the first step declared that is
\* not completed when no step is active ...
StartNextStep ==
    /\ progress_tracker.active_steps = {}
    /\ Len(progress_tracker.completed_steps) < Len(progress_tracker.steps)
    /\ progress_tracker' =
          start_step(progress_tracker,
                     progress_tracker.steps[
                        Len(progress_tracker.completed_steps) + 1],
                     clock)
    /\ UNCHANGED <<wfConfig, clock, w_pc, s_pc, s_result, w_result,
                   w_raised, s_log, s_failed, all_papers>>
    /\ UNCHANGED <<rlVars, retryVars, libVars, restVars>>

\* ... and completes the step that is active.
CompleteActiveStep ==
    /\ \E step_name \in progress_tracker.active_steps,
          result_count \in {0, 1} :
          progress_tracker' =
             complete_step(progress_tracker, step_name, result_count)
    /\ UNCHANGED <<wfConfig, clock, w_pc, s_pc, s_result, w_result,
                   w_raised, s_log, s_failed, all_papers>>
    /\ UNCHANGED <<rlVars, retryVars, libVars, restVars>>

NextTimed ==
    \/ InitializeWorkflow
    \/ StartNextStep
    \/ CompleteActiveStep
    \/ TrackerTick
    \/ GetPerformanceMetrics

SpecTimed == InitTracker /\ [][NextTimed]_vars

(***************************************************************************)
(* C38.  The time reported for a completed step is fixed once the step is  *)
(* completed: two calls of get_performance_metrics between which the       *)
(* tracker was not touched report the same step_times for every step the   *)
(* first one reported, however much time passed between them.              *)
(***************************************************************************)
C38_StepTimeIsFixed ==
    [][ ( /\ metrics.called
          /\ metrics'.called
          /\ "step_times" \in DOMAIN metrics.returned
          /\ metrics'.tracker = metrics.tracker )
        => \A step \in DOMAIN metrics.returned.step_times :
              metrics'.returned.step_times[step]
                 = metrics.returned.step_times[step] ]_vars

(***************************************************************************)
(* The HTTP sessions of SemanticScholarAPI and ArxivAPI,                   *)
(* api_integrations.py lines 56-122 and 128-248: tasks call search() and   *)
(* close() on clients that have what search() needs (an API key).          *)
(***************************************************************************)
\* _get_session, lines 62-69 and 133-141: it has no await, so it runs as
\* one step; it constructs a session only while self.session is None
get_session(c) ==
    IF session[c] = 0
    THEN [session |-> sessions_made[c] + 1, made |-> sessions_made[c] + 1]
    ELSE [session |-> session[c], made |-> sessions_made[c]]

\* A task calls search() on a client and is suspended in
\* rate_limiter.acquire(), lines 83 and 219.
BeginSearch(t) ==
    /\ searches[t].pc = "idle"
    /\ \E c \in Clients :
          searches' = [searches EXCEPT ![t] =
                          [pc |-> "acquiring", client |-> c, got |-> 0,
                           outcome |-> "none"]]
    /\ UNCHANGED <<session, sessions_made, sessions_closed, handed>>
    /\ UNCHANGED <<rlVars, retryVars, wfVars, libVars, runVars, metrics>>

\* acquire() returned: lines 85-98 and 221-232.  search() gets the session
\* and sends the request; session.get raises RuntimeError on a closed
\* session, which the handler of lines 115-117 and 241-243 turns into [].
SendRequest(t) ==
    /\ searches[t].pc = "acquiring"
    /\ LET c == searches[t].client
           g == get_session(c)
           is_closed == g.session \in sessions_closed[c]
       IN  /\ session' = [session EXCEPT ![c] = g.session]
           /\ sessions_made' = [sessions_made EXCEPT ![c] = g.made]
           /\ handed' = [given |-> TRUE, client |-> c,
                         session |-> g.session, closed |-> is_closed]
           /\ searches' = [searches EXCEPT ![t] =
                 IF is_closed
                 THEN [pc |-> "idle", client |-> c, got |-> g.session,
                       outcome |-> "error"]
                 ELSE [pc |-> "requesting", client |-> c,
                       got |-> g.session, outcome |-> "none"]]
    /\ UNCHANGED sessions_closed
    /\ UNCHANGED <<rlVars, retryVars, wfVars, libVars, runVars, metrics>>

\* The request ends, lines 98-113 and 232-239: with a response, or, when
\* the session was closed under it, with a response or an exception.
RequestEnds(t) ==
    /\ searches[t].pc = "requesting"
    /\ \E outcome \in IF searches[t].got
                           \in sessions_closed[searches[t].client]
                      THEN {"papers", "error"} ELSE {"papers"} :
          searches' = [searches EXCEPT ![t].pc = "idle",
                                       ![t].outcome = outcome]
    /\ UNCHANGED <<session, sessions_made, sessions_closed, handed>>
    /\ UNCHANGED <<rlVars, retryVars, wfVars, libVars, runVars, metrics>>

\* close(), lines 119-122 and 245-248: the session is closed and
\* self.session keeps referring to it
Close(c) ==
    /\ session[c] # 0
    /\ sessions_closed' = [sessions_closed EXCEPT ![c] = @ \cup {session[c]}]
    /\ UNCHANGED <<session, sessions_made, searches, handed>>
    /\ UNCHANGED <<rlVars, retryVars, wfVars, libVars, runVars, metrics>>

InitSession ==
    /\ NewClients
    /\ NoCaller
    /\ metrics = NoMetrics
    /\ NoLimiterUse
    /\ NoRetry
    /\ NoRun
    /\ NoLib

NextSession ==
    \/ \E t \in Tasks : BeginSearch(t)
    \/ \E t \in Tasks : SendRequest(t)
    \/ \E t \in Tasks : RequestEnds(t)
    \/ \E c \in Clients : Close(c)

SpecSession == InitSession /\ [][NextSession]_vars

\* the sessions of client c that are open
OpenSessions(c) == (1..sessions_made[c]) \ sessions_closed[c]

(***************************************************************************)
(* C39.  Across any sequence of search() and close() calls on a client,    *)
(* concurrent searches included, _get_session never returns a session that *)
(* has been closed, and at most one session of the client is open at any   *)
(* time.                                                                   *)
(***************************************************************************)
C39_NoClosedSessionHandedOut ==
    /\ handed.given => ~handed.closed
    /\ \A c \in Clients : Cardinality(OpenSessions(c)) <= 1

=============================================================================
